---- MODULE Spec2Model ----
(***************************************************************************)
(* near-abi: the chunked-entry combiner (ChunkedAbiEntry::combine, both    *)
(* the current file near-abi/src/private.rs and the older src/private.rs   *)
(* that tracks source_hash), the legacy migration chain                    *)
(* (legacy::migration::v0_1_to_v0_2, v0_2_to_current), the version         *)
(* detector legacy::from_value and the serde form of the current document. *)
(*                                                                         *)
(* Rust Strings are modelled as sequences of bytes, so that String's Ord   *)
(* (byte-wise lexicographic) is computed and not assumed.                  *)
(***************************************************************************)
EXTENDS Integers, Sequences, FiniteSets, TLC

VARIABLES
    prog,                 \* which entry point this run exercises
    pc,                   \* position inside that entry point
    entries,              \* the entries the `for` loop of combine has consumed so far
    schema_version,       \* combine: let mut schema_version: Option<String>
    source_hash,          \* combine (src/private.rs): let mut source_hash: Option<u64>
    functions,            \* combine: let mut functions: Vec<AbiFunction>
    definitions,          \* combine: the generator's definitions map
    unexpected_versions,  \* combine: the set of unexpected versions
    result,               \* combine: what the call returned (or that it panicked)
    abi,                  \* legacy: the historical document that was parsed
    abi_v0_2,             \* legacy: the v0.2 document in hand (or the panic of v0_1_to_v0_2)
    migrated,             \* legacy: what v0_2_to_current returned
    value,                \* serde: the serde_json::Value in hand
    abi_root              \* serde: what from_value or the deserializer returned

vars == <<prog, pc, entries, schema_version, source_hash, functions, definitions,
          unexpected_versions, result, abi, abi_v0_2, migrated, value, abi_root>>

combine_vars == <<entries, schema_version, source_hash, functions, definitions,
                  unexpected_versions, result>>

legacy_vars == <<abi, abi_v0_2, migrated>>

serde_vars == <<value, abi_root>>

(***************************************************************************)
(* Bounds of the model.                                                    *)
(***************************************************************************)
MaxEntries == 4

MaxParams == 3

(***************************************************************************)
(* Strings.                                                                *)
(***************************************************************************)
\* "0.3.0", the value of SCHEMA_VERSION
SCHEMA_VERSION == <<48, 46, 51, 46, 48>>

\* "0.2.0"
V020 == <<48, 46, 50, 46, 48>>

\* "0.4.0"
V040 == <<48, 46, 52, 46, 48>>

\* "0.10.0": below "0.2.0" in String order, above it as a semver
V0100 == <<48, 46, 49, 48, 46, 48>>

\* function names "a", "b", "c", "ab"
NameA == <<97>>

NameB == <<98>>

NameC == <<99>>

NameAB == <<97, 98>>

\* <String as Ord>::lt: byte-wise lexicographic, a proper prefix is smaller
StrLess(s, t) ==
    \E k \in 1..(Len(s) + 1) :
        /\ \A j \in 1..(k - 1) : j <= Len(t) /\ s[j] = t[j]
        /\ \/ k = Len(s) + 1 /\ k <= Len(t)
           \/ k <= Len(s) /\ k <= Len(t) /\ s[k] < t[k]

\* <String as Ord>::cmp
cmp(s, t) ==
    IF StrLess(s, t) THEN "Less" ELSE IF s = t THEN "Equal" ELSE "Greater"

(***************************************************************************)
(* Option<T>.                                                              *)
(***************************************************************************)
None == [some |-> FALSE, val |-> <<>>]

Some(v) == [some |-> TRUE, val |-> v]

(***************************************************************************)
(* The type catalog. A root schema is the part outside the definitions     *)
(* (root: which type it is the root schema of) and the named definitions.  *)
(* defs_present says whether the schema holds an object of definitions     *)
(* at all ("$defs" in schemars 1.x).                                       *)
(***************************************************************************)
TypeNames == {"T1", "T2"}

EmptyMap == [n \in {} |-> "D1"]

RootSchema(root, present, defs) ==
    [root |-> root, defs_present |-> present, defs |-> defs]

\* a name that is there already keeps its definition
InsertAllFirstWins(acc, defs) ==
    [n \in (DOMAIN acc) \cup (DOMAIN defs) |->
        IF n \in DOMAIN acc THEN acc[n] ELSE defs[n]]

\* the catalog is replaced by the entry's definitions, not extended
InsertAllReplace(acc, defs) == defs

\* definitions.insert(k, v) for every (k, v) of defs: the later value wins
InsertAll(acc, defs) ==
    [n \in (DOMAIN acc) \cup (DOMAIN defs) |->
        IF n \in DOMAIN defs THEN defs[n] ELSE acc[n]]

\* serde_json::from_value(v.clone()).unwrap_or_default() into the value type of
\* the generator's definitions map, which is serde_json::Value in schemars 1.x:
\* deserializing a Value as a Value cannot fail, the default is never taken.
from_value_or_default(v) == v

\* lines 53-63 of near-abi/src/private.rs: only an object under "$defs" of an
\* object schema contributes definitions
MergeDefsDropped(acc, root_schema) == acc

MergeDefs(acc, root_schema) ==
    IF root_schema.defs_present
    THEN InsertAll(acc, [n \in DOMAIN root_schema.defs |->
                            from_value_or_default(root_schema.defs[n])])
    ELSE acc

\* SchemaGenerator::into_root_schema_for::<String>() (schemars 1.x): the String
\* root schema, with "$defs" only when there are definitions
into_root_schema_for_String(defs) ==
    RootSchema("String", defs # EmptyMap, defs)

\* the same of schemars 0.8 (src/private.rs): RootSchema.definitions is a field
into_root_schema_for_String_08(defs) ==
    RootSchema("String", TRUE, defs)

(***************************************************************************)
(* Functions, as far as combine looks at them: the name it sorts by, and   *)
(* doc standing for the rest of the function, which combine only moves.    *)
(***************************************************************************)
Fn(name, doc) == [name |-> name, doc |-> doc]

\* f is put before the elements of its own name
InsertPosBeforeEqual(s, f) ==
    IF \E i \in 1..Len(s) : cmp(f.name, s[i].name) # "Greater"
    THEN CHOOSE i \in 1..Len(s) :
            /\ cmp(f.name, s[i].name) # "Greater"
            /\ \A j \in 1..(i - 1) : cmp(f.name, s[j].name) = "Greater"
    ELSE Len(s) + 1

\* the place sort_by's stable merge gives f among the already sorted s: after
\* every element that does not compare Greater than f
InsertPos(s, f) ==
    IF \E i \in 1..Len(s) : cmp(f.name, s[i].name) = "Less"
    THEN CHOOSE i \in 1..Len(s) :
            /\ cmp(f.name, s[i].name) = "Less"
            /\ \A j \in 1..(i - 1) : cmp(f.name, s[j].name) # "Less"
    ELSE Len(s) + 1

InsertSorted(s, f) ==
    LET p == InsertPos(s, f)
    IN  SubSeq(s, 1, p - 1) \o <<f>> \o SubSeq(s, p, Len(s))

RECURSIVE StableSort(_)
StableSort(s) ==
    IF s = <<>> THEN <<>>
    ELSE InsertSorted(StableSort(SubSeq(s, 1, Len(s) - 1)), s[Len(s)])

\* a sort dropped: the list stays in insertion order
sort_by_name_missing(fs) == fs

\* functions.sort_by(|x, y| x.name.cmp(&y.name))
sort_by_name(fs) == StableSort(fs)

\* functions.extend(entry.body.functions) losing repeated names
extend_dedup(fs, more) ==
    LET RECURSIVE Add(_, _)
        Add(acc, i) ==
            IF i > Len(more) THEN acc
            ELSE IF \E j \in 1..Len(acc) : acc[j].name = more[i].name
                 THEN Add(acc, i + 1)
                 ELSE Add(Append(acc, more[i]), i + 1)
    IN  Add(fs, 1)

\* functions.extend(entry.body.functions)
extend(fs, more) == fs \o more

(***************************************************************************)
(* BTreeSet<String>::into_iter().collect(): ascending in String order.     *)
(***************************************************************************)
MinStr(S) == CHOOSE s \in S : \A t \in S : t = s \/ StrLess(s, t)

RECURSIVE Ascending(_)
Ascending(S) ==
    IF S = {} THEN <<>>
    ELSE LET m == MinStr(S) IN <<m>> \o Ascending(S \ {m})

\* the orders a HashSet<String> (RandomState) may iterate in: any of them
Orders(S) ==
    {q \in [1..Cardinality(S) -> S] : \A x \in S : \E i \in DOMAIN q : q[i] = x}

(***************************************************************************)
(* ChunkedAbiEntry and the inputs of combine.                              *)
(***************************************************************************)
Entry(v, fs, rs) == [schema_version |-> v, functions |-> fs, root_schema |-> rs]

EntrySrc(v, h, fs, rs) ==
    [schema_version |-> v, source_hash |-> h, functions |-> fs, root_schema |-> rs]

FnA == Fn(NameA, "d1")

FnA2 == Fn(NameA, "d2")

FnB == Fn(NameB, "d1")

FnC == Fn(NameC, "d1")

FnAB == Fn(NameAB, "d1")

NoDefs == RootSchema("String", FALSE, EmptyMap)

\* a RootSchema of schemars 0.8 with no definition: `definitions` is a field
EmptyDefs == RootSchema("String", TRUE, EmptyMap)

DefsT1 == RootSchema("String", TRUE, [n \in {"T1"} |-> "D1"])

DefsT1T2 == RootSchema("String", TRUE, [n \in {"T1", "T2"} |-> IF n = "T1" THEN "D2" ELSE "D1"])

OtherRoot == RootSchema("Other", TRUE, [n \in {"T2"} |-> "D2"])

\* "0.3.1"
V031 == <<48, 46, 51, 46, 49>>

Versions == {SCHEMA_VERSION, V020, V040, V0100, V031}

\* the entries a caller of near-abi/src/private.rs hands in: every version with
\* an empty body, and current-version entries that differ in their functions or
\* in their catalog, and two entries that differ in all three. A schema made
\* by a generator has no empty "$defs" object.
EntryUniverse ==
    {Entry(v, <<>>, NoDefs) : v \in Versions}
    \cup {Entry(SCHEMA_VERSION, fs, NoDefs) : fs \in {<<FnB, FnA>>, <<FnC>>, <<FnA2>>}}
    \cup {Entry(SCHEMA_VERSION, <<>>, rs) : rs \in {DefsT1, DefsT1T2, OtherRoot}}
    \cup {Entry(V020, <<FnA>>, DefsT1), Entry(SCHEMA_VERSION, <<FnAB, FnA>>, DefsT1T2)}

Defs08T1 == RootSchema("String", TRUE, [n \in {"T1"} |-> "D1"])

Defs08T1b == RootSchema("Other", TRUE, [n \in {"T1"} |-> "D2"])

\* the entries a caller of src/private.rs hands in
EntryUniverseSrc ==
    {EntrySrc(v, h, <<>>, EmptyDefs) : v \in {SCHEMA_VERSION, V020, V040}, h \in {1, 2}}
    \cup {EntrySrc(SCHEMA_VERSION, 1, <<FnB, FnA>>, Defs08T1),
          EntrySrc(SCHEMA_VERSION, 1, <<FnA2>>, Defs08T1b)}

(***************************************************************************)
(* Result<ChunkedAbiEntry, AbiCombineError>, or the panic of an unwrap.    *)
(***************************************************************************)
Pending ==
    [tag |-> "Pending", schema_version |-> <<>>, source_hash |-> 0,
     functions |-> <<>>, root_schema |-> NoDefs,
     kind |-> "", expected |-> <<>>, found |-> <<>>]

Panic == [Pending EXCEPT !.tag = "Panic"]

Ok(v, h, fs, rs) ==
    [Pending EXCEPT !.tag = "Ok", !.schema_version = v, !.source_hash = h,
                    !.functions = fs, !.root_schema = rs]

SchemaVersionConflict(expected, found) ==
    [Pending EXCEPT !.tag = "Err", !.kind = "SCHEMA_VERSION_CONFLICT",
                    !.expected = expected, !.found = found]

SourceConflict == [Pending EXCEPT !.tag = "Err", !.kind = "SOURCE_CONFLICT"]

(***************************************************************************)
(* ChunkedAbiEntry::combine of near-abi/src/private.rs.                    *)
(***************************************************************************)
\* two versions of the same major.minor go together
version_mismatch_major_minor(sv, entry) ==
    sv.some /\ (sv.val[1] # entry.schema_version[1] \/ sv.val[3] # entry.schema_version[3])

\* only a newer version counts as unexpected
version_mismatch_newer(sv, entry) ==
    sv.some /\ StrLess(sv.val, entry.schema_version)

\* `if let Some(ref schema_version) = schema_version` and
\* `schema_version != &entry.schema_version`
version_mismatch(sv, entry) ==
    sv.some /\ sv.val # entry.schema_version

\* the else branch: `schema_version = Some(entry.schema_version)` on the first entry
expected_after(sv, entry) ==
    IF sv.some THEN sv ELSE Some(entry.schema_version)

\* only the first unexpected version is kept
insert_unexpected_first(S, v) == IF S = {} THEN {v} ELSE S

\* unexpected_versions.insert(entry.schema_version.clone())
insert_unexpected(S, v) == S \cup {v}

\* the code after the loop, given the order `found` was collected in
after_loop(sv, h, fs, rs, found) ==
    IF found # <<>>
    THEN IF sv.some THEN SchemaVersionConflict(sv.val, found) ELSE Panic
    ELSE IF sv.some /\ h.some
         THEN Ok(sv.val, h.val, sort_by_name(fs), rs)
         ELSE Panic

\* one iteration of `for entry in entries`
combine_loop ==
    /\ prog = "combine"
    /\ pc = "loop"
    /\ Len(entries) < MaxEntries
    /\ \E entry \in EntryUniverse :
        /\ entries' = Append(entries, entry)
        /\ IF version_mismatch(schema_version, entry)
           THEN /\ unexpected_versions' =
                        insert_unexpected(unexpected_versions, entry.schema_version)
                /\ UNCHANGED <<schema_version, definitions, functions>>
           ELSE /\ schema_version' = expected_after(schema_version, entry)
                /\ definitions' = MergeDefs(definitions, entry.root_schema)
                /\ functions' = extend(functions, entry.functions)
                /\ UNCHANGED unexpected_versions
    /\ UNCHANGED <<prog, pc, source_hash, result>>
    /\ UNCHANGED legacy_vars
    /\ UNCHANGED serde_vars

\* the iterator is exhausted: lines 69-87
combine_return ==
    /\ prog = "combine"
    /\ pc = "loop"
    /\ result' = after_loop(schema_version, Some(0), functions,
                            into_root_schema_for_String(definitions),
                            Ascending(unexpected_versions))
    /\ pc' = "done"
    /\ UNCHANGED <<prog, entries, schema_version, source_hash, functions, definitions,
                   unexpected_versions>>
    /\ UNCHANGED legacy_vars
    /\ UNCHANGED serde_vars

(***************************************************************************)
(* ChunkedAbiEntry::combine of src/private.rs (source_hash, HashSet).      *)
(***************************************************************************)
\* the source hashes are not compared
source_mismatch_ignored(h, entry) == FALSE

\* `if let Some(ref source_hash) = source_hash` and
\* `source_hash != &entry.source_hash` (55-56)
source_mismatch(h, entry) ==
    h.some /\ h.val # entry.source_hash

combine_src_loop ==
    /\ prog = "combine_src"
    /\ pc = "loop"
    /\ Len(entries) < MaxEntries
    /\ \E entry \in EntryUniverseSrc :
        /\ entries' = Append(entries, entry)
        /\ IF version_mismatch(schema_version, entry)
           THEN /\ unexpected_versions' =
                        insert_unexpected(unexpected_versions, entry.schema_version)
                /\ UNCHANGED <<schema_version, source_hash, definitions, functions,
                               result, pc>>
           ELSE /\ schema_version' = expected_after(schema_version, entry)
                /\ UNCHANGED unexpected_versions
                /\ IF source_mismatch(source_hash, entry)
                   THEN /\ result' = SourceConflict
                        /\ pc' = "done"
                        /\ UNCHANGED <<source_hash, definitions, functions>>
                   ELSE /\ source_hash' = Some(entry.source_hash)
                        /\ definitions' = InsertAll(definitions, entry.root_schema.defs)
                        /\ functions' = extend(functions, entry.functions)
                        /\ UNCHANGED <<result, pc>>
    /\ UNCHANGED prog
    /\ UNCHANGED legacy_vars
    /\ UNCHANGED serde_vars

combine_src_return ==
    /\ prog = "combine_src"
    /\ pc = "loop"
    /\ \E found \in Orders(unexpected_versions) :
        result' = after_loop(schema_version, source_hash, functions,
                             into_root_schema_for_String_08(definitions), found)
    /\ pc' = "done"
    /\ UNCHANGED <<prog, entries, schema_version, source_hash, functions, definitions,
                   unexpected_versions>>
    /\ UNCHANGED legacy_vars
    /\ UNCHANGED serde_vars

(***************************************************************************)
(* combine as a function of the sequence of entries: the loop folded over  *)
(* the entries, then the code after the loop.                              *)
(***************************************************************************)
\* the locals before the loop (private.rs 32-38)
Locals ==
    [schema_version |-> None, source_hash |-> None, functions |-> <<>>,
     definitions |-> EmptyMap, unexpected_versions |-> {}, returned |-> FALSE]

\* one iteration of the loop of near-abi/src/private.rs (40-67)
loop_body(acc, entry) ==
    IF version_mismatch(acc.schema_version, entry)
    THEN [acc EXCEPT !.unexpected_versions =
                         insert_unexpected(acc.unexpected_versions, entry.schema_version)]
    ELSE [acc EXCEPT !.schema_version = expected_after(acc.schema_version, entry),
                     !.definitions = MergeDefs(acc.definitions, entry.root_schema),
                     !.functions = extend(acc.functions, entry.functions)]

\* one iteration of the loop of src/private.rs (45-70); returned says that
\* the loop was left by `return Err(.. SourceConflict ..)`
loop_body_src(acc, entry) ==
    IF acc.returned THEN acc
    ELSE IF version_mismatch(acc.schema_version, entry)
    THEN [acc EXCEPT !.unexpected_versions =
                         insert_unexpected(acc.unexpected_versions, entry.schema_version)]
    ELSE IF source_mismatch(acc.source_hash, entry)
    THEN [acc EXCEPT !.schema_version = expected_after(acc.schema_version, entry),
                     !.returned = TRUE]
    ELSE [acc EXCEPT !.schema_version = expected_after(acc.schema_version, entry),
                     !.source_hash = Some(entry.source_hash),
                     !.definitions = InsertAll(acc.definitions, entry.root_schema.defs),
                     !.functions = extend(acc.functions, entry.functions)]

\* `for entry in entries` of near-abi/src/private.rs
RECURSIVE for_entries(_)
for_entries(es) ==
    IF es = <<>> THEN Locals
    ELSE loop_body(for_entries(SubSeq(es, 1, Len(es) - 1)), es[Len(es)])

\* `for entry in entries` of src/private.rs
RECURSIVE for_entries_src(_)
for_entries_src(es) ==
    IF es = <<>> THEN Locals
    ELSE loop_body_src(for_entries_src(SubSeq(es, 1, Len(es) - 1)), es[Len(es)])

\* ChunkedAbiEntry::combine of near-abi/src/private.rs: what it returns
combine(es) ==
    LET acc == for_entries(es)
    IN  after_loop(acc.schema_version, Some(0), acc.functions,
                   into_root_schema_for_String(acc.definitions),
                   Ascending(acc.unexpected_versions))

\* ChunkedAbiEntry::combine of src/private.rs: what it may return, one result
\* for every order the HashSet may be iterated in
combine_src(es) ==
    LET acc == for_entries_src(es)
    IN  IF acc.returned THEN {SourceConflict}
        ELSE {after_loop(acc.schema_version, acc.source_hash, acc.functions,
                         into_root_schema_for_String_08(acc.definitions), found) :
                found \in Orders(acc.unexpected_versions)}

(***************************************************************************)
(* The legacy documents. AbiType is a tag and an opaque type descriptor.   *)
(***************************************************************************)
AbiTypeJson(ts) == [tag |-> "Json", type_schema |-> ts]

AbiTypeBorsh(ts) == [tag |-> "Borsh", type_schema |-> ts]

AbiTypes == {AbiTypeJson("J1"), AbiTypeJson("J2"), AbiTypeBorsh("B1")}

ParamNames == {"x", "y"}

\* v0_1::AbiParameter: a name and a per-parameter AbiType
Params01 == [name : ParamNames, typ : AbiTypes]

ParamLists01 ==
    UNION {[1..n -> Params01] : n \in 0..MaxParams}

\* Option::map
OptionMap(F(_), o) == IF o.some THEN Some(F(o.val)) ELSE None

\* Iterator::map(..).collect()
SeqMap(F(_), s) == [i \in 1..Len(s) |-> F(s[i])]

(***************************************************************************)
(* AbiMetadata (lib.rs 69-89) and its way through serde_json::Value.       *)
(* A JSON value is a type tag and a payload.                               *)
(***************************************************************************)
JStr(x) == [t |-> "str", v |-> x]

JArr(x) == [t |-> "arr", v |-> x]

JObj(x) == [t |-> "obj", v |-> x]

MetadataFields == {"name", "version", "authors", "build", "wasm_hash"}

Metadata(name, version, authors, build, wasm_hash, other) ==
    [name |-> name, version |-> version, authors |-> authors, build |-> build,
     wasm_hash |-> wasm_hash, other |-> other]

BuildInfo(compiler, builder, image) ==
    [compiler |-> compiler, builder |-> builder, image |-> image]

\* Serialize for BuildInfo: image is skipped when None
build_to_value(b) ==
    [k \in {"compiler", "builder"} \cup (IF b.image.some THEN {"image"} ELSE {}) |->
        CASE k = "compiler" -> JStr(b.compiler)
          [] k = "builder" -> JStr(b.builder)
          [] k = "image" -> JStr(b.image.val)]

\* Serialize for AbiMetadata: None and empty fields are skipped, `other` is
\* flattened into the same object after the named fields
metadata_to_value(m) ==
    LET named == (IF m.name.some THEN {"name"} ELSE {})
                 \cup (IF m.version.some THEN {"version"} ELSE {})
                 \cup (IF m.authors # <<>> THEN {"authors"} ELSE {})
                 \cup (IF m.build.some THEN {"build"} ELSE {})
                 \cup (IF m.wasm_hash.some THEN {"wasm_hash"} ELSE {})
    IN  [k \in named \cup DOMAIN m.other |->
            IF k \in DOMAIN m.other THEN JStr(m.other[k])
            ELSE CASE k = "name" -> JStr(m.name.val)
                   [] k = "version" -> JStr(m.version.val)
                   [] k = "authors" -> JArr(m.authors)
                   [] k = "build" -> JObj(build_to_value(m.build.val))
                   [] k = "wasm_hash" -> JStr(m.wasm_hash.val)]

\* Deserialize for BuildInfo: the derive has no deny_unknown_fields, a key
\* that is no field is skipped
build_from_value(j) ==
    IF /\ j.t = "obj"
       /\ {"compiler", "builder"} \subseteq DOMAIN j.v
       /\ \A k \in DOMAIN j.v \cap {"compiler", "builder", "image"} : j.v[k].t = "str"
    THEN [ok |-> TRUE,
          val |-> BuildInfo(j.v["compiler"].v, j.v["builder"].v,
                            IF "image" \in DOMAIN j.v THEN Some(j.v["image"].v) ELSE None)]
    ELSE [ok |-> FALSE, val |-> BuildInfo("", "", None)]

OptStr(j, k) == IF k \in DOMAIN j THEN Some(j[k].v) ELSE None

\* the entries that are no named field are dropped
metadata_from_value_no_other(j) ==
    LET build == IF "build" \in DOMAIN j THEN build_from_value(j["build"])
                 ELSE [ok |-> TRUE, val |-> BuildInfo("", "", None)]
    IN  [ok |-> TRUE,
         val |-> Metadata(OptStr(j, "name"), OptStr(j, "version"),
                          IF "authors" \in DOMAIN j THEN j["authors"].v ELSE <<>>,
                          IF "build" \in DOMAIN j THEN Some(build.val) ELSE None,
                          OptStr(j, "wasm_hash"),
                          [k \in {} |-> ""])]

\* Deserialize for AbiMetadata: absent fields take their default, every other
\* key goes to `other`, a HashMap<String, String>
metadata_from_value(j) ==
    LET rest == DOMAIN j \ MetadataFields
        build == IF "build" \in DOMAIN j THEN build_from_value(j["build"])
                 ELSE [ok |-> TRUE, val |-> BuildInfo("", "", None)]
    IN  IF /\ \A k \in {"name", "version", "wasm_hash"} \cap DOMAIN j : j[k].t = "str"
           /\ "authors" \in DOMAIN j => j["authors"].t = "arr"
           /\ build.ok
           /\ \A k \in rest : j[k].t = "str"
        THEN [ok |-> TRUE,
              val |-> Metadata(OptStr(j, "name"), OptStr(j, "version"),
                               IF "authors" \in DOMAIN j THEN j["authors"].v ELSE <<>>,
                               IF "build" \in DOMAIN j THEN Some(build.val) ELSE None,
                               OptStr(j, "wasm_hash"),
                               [k \in rest |-> j[k].v])]
        ELSE [ok |-> FALSE, val |-> Metadata(None, None, <<>>, None, None, <<>>)]

\* Serialize for v0_1::AbiMetadata and v0_2::AbiMetadata: metadata has the
\* same shape in every version
legacy_metadata_to_value(m) == metadata_to_value(m)

\* Deserialize for v0_2::AbiMetadata
legacy_metadata_from_value(j) == metadata_from_value(j)

\* migration.rs 48-49, into v0_2::AbiMetadata
metadata_reinterpret_v0_2(m) ==
    legacy_metadata_from_value(legacy_metadata_to_value(m))

\* migration.rs 108-109, into crate::AbiMetadata:
\* serde_json::from_value(serde_json::to_value(&abi.metadata).unwrap())
metadata_reinterpret(m) == metadata_from_value(legacy_metadata_to_value(m))

(***************************************************************************)
(* legacy/migration.rs.                                                    *)
(***************************************************************************)
\* ToBorshSchema for v0_1::AbiType: the descriptor, or a panic
to_borsh_schema(typ) ==
    [panic |-> typ.tag # "Borsh", val |-> typ.type_schema]

\* ToJsonSchema for v0_1::AbiType: the descriptor, or a panic
to_json_schema(typ) ==
    [panic |-> typ.tag # "Json", val |-> typ.type_schema]

\* the two tags are exchanged
v0_1_abi_type_to_v0_2_retagged(abi_type) ==
    CASE abi_type.tag = "Json" -> AbiTypeBorsh(abi_type.type_schema)
      [] abi_type.tag = "Borsh" -> AbiTypeJson(abi_type.type_schema)

\* fn v0_1_abi_type_to_v0_2 (migration.rs 32-37)
v0_1_abi_type_to_v0_2(abi_type) ==
    CASE abi_type.tag = "Json" -> AbiTypeJson(abi_type.type_schema)
      [] abi_type.tag = "Borsh" -> AbiTypeBorsh(abi_type.type_schema)

v0_2_abi_type_to_current(abi_type) ==
    CASE abi_type.tag = "Json" -> AbiTypeJson(abi_type.type_schema)
      [] abi_type.tag = "Borsh" -> AbiTypeBorsh(abi_type.type_schema)

\* an empty list is taken for Borsh
is_json_empty_borsh(params) ==
    IF params = <<>> THEN FALSE ELSE params[1].typ.tag = "Json"

\* f.params.first().map(|p| matches!(p.typ, Json { .. })).unwrap_or(true)
is_json(params) ==
    IF params = <<>> THEN TRUE ELSE params[1].typ.tag = "Json"

\* lines 66-73: every parameter keeps its name, its descriptor is taken out
\* by to_json_schema
args_json(params) ==
    [i \in 1..Len(params) |->
        [name |-> params[i].name, type_schema |-> to_json_schema(params[i].typ).val]]

\* lines 77-84: every parameter keeps its name, its descriptor is taken out
\* by to_borsh_schema
args_borsh(params) ==
    [i \in 1..Len(params) |->
        [name |-> params[i].name, type_schema |-> to_borsh_schema(params[i].typ).val]]

\* lines 58-99: one v0.1 function; panic says that a to_*_schema call panicked
v0_1_function_to_v0_2(f) ==
    LET json == is_json(f.params)
        bad == \E i \in 1..Len(f.params) :
                   IF json THEN to_json_schema(f.params[i].typ).panic
                   ELSE to_borsh_schema(f.params[i].typ).panic
        params == IF json
                  THEN [class |-> "Json", args |-> args_json(f.params)]
                  ELSE [class |-> "Borsh", args |-> args_borsh(f.params)]
    IN  [panic |-> bad,
         val |-> [name |-> f.name,
                  doc |-> f.doc,
                  is_view |-> f.is_view,
                  is_init |-> f.is_init,
                  is_payable |-> f.is_payable,
                  is_private |-> f.is_private,
                  params |-> params,
                  callbacks |-> SeqMap(v0_1_abi_type_to_v0_2, f.callbacks),
                  callbacks_vec |-> OptionMap(v0_1_abi_type_to_v0_2, f.callbacks_vec),
                  result |-> OptionMap(v0_1_abi_type_to_v0_2, f.result)]]

AbiRoot(v, metadata, fs, rs) ==
    [schema_version |-> v, metadata |-> metadata,
     body |-> [functions |-> fs, root_schema |-> rs]]

NotRun == [tag |-> "NotRun", doc |-> <<>>]

Panicked == [tag |-> "Panic", doc |-> <<>>]

Returns(doc) == [tag |-> "Ok", doc |-> doc]

\* pub(crate) fn v0_1_to_v0_2(abi: v0_1::AbiRoot) -> v0_2::AbiRoot
v0_1_to_v0_2(doc) ==
    LET metadata == metadata_reinterpret_v0_2(doc.metadata)
        fs == SeqMap(v0_1_function_to_v0_2, doc.body.functions)
    IN  IF ~metadata.ok \/ \E i \in 1..Len(fs) : fs[i].panic
        THEN Panicked
        ELSE Returns(AbiRoot(V020, metadata.val,
                             [i \in 1..Len(fs) |-> fs[i].val], doc.body.root_schema))

\* lines 125-144: the parameter list keeps its class and its arguments
params_to_current(params) ==
    CASE params.class = "Json" ->
            [class |-> "Json",
             args |-> [i \in 1..Len(params.args) |->
                        [name |-> params.args[i].name,
                         type_schema |-> params.args[i].type_schema]]]
      [] params.class = "Borsh" ->
            [class |-> "Borsh",
             args |-> [i \in 1..Len(params.args) |->
                        [name |-> params.args[i].name,
                         type_schema |-> params.args[i].type_schema]]]

\* the doc comment is not carried over
v0_2_function_to_current_no_doc(f) ==
    [name |-> f.name,
     doc |-> None,
     is_view |-> f.is_view,
     is_init |-> f.is_init,
     is_payable |-> f.is_payable,
     is_private |-> f.is_private,
     params |-> params_to_current(f.params),
     callbacks |-> SeqMap(v0_2_abi_type_to_current, f.callbacks),
     callbacks_vec |-> OptionMap(v0_2_abi_type_to_current, f.callbacks_vec),
     result |-> OptionMap(v0_2_abi_type_to_current, f.result)]

\* lines 118-152: one v0.2 function, field by field as the struct literal has it
v0_2_function_to_current(f) ==
    [name |-> f.name,
     doc |-> f.doc,
     is_view |-> f.is_view,
     is_init |-> f.is_init,
     is_payable |-> f.is_payable,
     is_private |-> f.is_private,
     params |-> params_to_current(f.params),
     callbacks |-> SeqMap(v0_2_abi_type_to_current, f.callbacks),
     callbacks_vec |-> OptionMap(v0_2_abi_type_to_current, f.callbacks_vec),
     result |-> OptionMap(v0_2_abi_type_to_current, f.result)]

\* pub(crate) fn v0_2_to_current(abi: v0_2::AbiRoot) -> crate::AbiRoot
v0_2_to_current(doc) ==
    LET metadata == metadata_reinterpret(doc.metadata)
    IN  IF ~metadata.ok
        THEN Panicked
        ELSE Returns(AbiRoot(SCHEMA_VERSION, metadata.val,
                             SeqMap(v0_2_function_to_current, doc.body.functions),
                             doc.body.root_schema))

(***************************************************************************)
(* The historical documents handed to the transforms: what parsing a v0.1  *)
(* or a v0.2 document yields.                                              *)
(***************************************************************************)
NoOther == [k \in {} |-> ""]

MetadataEmpty == Metadata(None, None, <<>>, None, None, NoOther)

MetadataFull ==
    Metadata(Some("n1"), Some("1.0"), <<"alice", "bob">>,
             Some(BuildInfo("rustc", "cargo-near", None)), Some("h1"),
             [k \in {"license"} |-> "MIT"])

MetadataImage ==
    Metadata(None, Some("2.0"), <<>>,
             Some(BuildInfo("rustc", "cargo-near", Some("img"))), None, NoOther)

MetadataUniverse == {MetadataEmpty, MetadataFull, MetadataImage}

Function01(name, doc, flags, params, callbacks, callbacks_vec, res) ==
    [name |-> name, doc |-> doc,
     is_view |-> flags[1], is_init |-> flags[2],
     is_payable |-> flags[3], is_private |-> flags[4],
     params |-> params, callbacks |-> callbacks,
     callbacks_vec |-> callbacks_vec, result |-> res]

Flags == [1..4 -> BOOLEAN]

ViewOnly == [i \in 1..4 |-> i = 1]

\* v0.1 functions: every combination of the four booleans, every parameter
\* list up to MaxParams, and the shapes of callbacks, callbacks_vec and result
Functions01 ==
    {Function01("f", None, fl, ps, <<>>, None, None) :
        fl \in Flags, ps \in {<<>>, <<[name |-> "x", typ |-> AbiTypeBorsh("B1")]>>}}
    \cup {Function01("g", Some("doc"), ViewOnly, ps, <<>>, None, None) :
        ps \in ParamLists01}
    \cup {Function01("h", None, ViewOnly, <<>>, cb, cv, r) :
        cb \in {<<>>, <<AbiTypeJson("J1"), AbiTypeBorsh("B1")>>},
        cv \in {None, Some(AbiTypeBorsh("B1"))},
        r \in {None, Some(AbiTypeJson("J2"))}}

FunctionG(ps) == Function01("g", Some("doc"), ViewOnly, ps, <<>>, None, None)

ParamX(typ) == [name |-> "x", typ |-> typ]

ParamY(typ) == [name |-> "y", typ |-> typ]

\* function lists of a v0.1 document: none, one, or two of a few
FunctionLists01 ==
    {<<>>}
    \cup {<<f>> : f \in Functions01}
    \cup {<<f, g>> : f, g \in
            {FunctionG(<<ParamX(AbiTypeJson("J1"))>>),
             FunctionG(<<ParamX(AbiTypeBorsh("B1")), ParamY(AbiTypeJson("J1"))>>),
             Function01("h", None, [i \in 1..4 |-> i > 2], <<>>,
                        <<AbiTypeJson("J1")>>, None, Some(AbiTypeBorsh("B1")))}}

\* "0.1.0"
V010 == <<48, 46, 49, 46, 48>>

Documents01 ==
    {AbiRoot(V010, MetadataEmpty, fs, NoDefs) : fs \in FunctionLists01}
    \cup {AbiRoot(V010, m, <<FunctionG(<<ParamX(AbiTypeJson("J1"))>>)>>, rs) :
            m \in MetadataUniverse, rs \in {NoDefs, DefsT1}}
    \cup {AbiRoot(V010, MetadataFull,
                  <<Function01("h", None, ViewOnly, <<>>, <<>>, None, None),
                    FunctionG(<<ParamX(AbiTypeJson("J1"))>>)>>, DefsT1T2)}

\* v0.2 documents that are parsed as such: the parameter lists already have a
\* class, which may be Borsh with no argument
Function02(name, flags, class, args) ==
    [name |-> name, doc |-> None,
     is_view |-> flags[1], is_init |-> flags[2],
     is_payable |-> flags[3], is_private |-> flags[4],
     params |-> [class |-> class, args |-> args],
     callbacks |-> <<>>, callbacks_vec |-> None, result |-> None]

Documents02 ==
    {AbiRoot(V020, m, <<Function02("f", fl, class, <<>>)>>, DefsT1) :
        m \in {MetadataEmpty, MetadataFull}, fl \in Flags, class \in {"Json", "Borsh"}}
    \cup {AbiRoot(V020, MetadataEmpty,
                  <<Function02("f", ViewOnly, "Borsh",
                               <<[name |-> "x", type_schema |-> "B1"]>>),
                    Function02("g", ViewOnly, "Json",
                               <<[name |-> "y", type_schema |-> "J1"]>>)>>, NoDefs)}

(***************************************************************************)
(* The steps of the migration chain, as legacy::from_value composes them   *)
(* (legacy/mod.rs 34-42).                                                  *)
(***************************************************************************)
\* (0, 1): the parsed v0.1 document goes through v0_1_to_v0_2
migrate_v0_1 ==
    /\ prog = "legacy"
    /\ pc = "start"
    /\ \E doc \in Documents01 :
        /\ abi' = doc
        /\ abi_v0_2' = v0_1_to_v0_2(doc)
        /\ pc' = IF v0_1_to_v0_2(doc).tag = "Ok" THEN "v0_2" ELSE "done"
    /\ UNCHANGED <<prog, migrated>>
    /\ UNCHANGED combine_vars
    /\ UNCHANGED serde_vars

\* (0, 2): the document is parsed as a v0.2 document
parse_v0_2 ==
    /\ prog = "legacy"
    /\ pc = "start"
    /\ \E doc \in Documents02 :
        /\ abi' = doc
        /\ abi_v0_2' = Returns(doc)
    /\ pc' = "v0_2"
    /\ UNCHANGED <<prog, migrated>>
    /\ UNCHANGED combine_vars
    /\ UNCHANGED serde_vars

\* the v0.2 document in hand goes through v0_2_to_current
migrate_v0_2 ==
    /\ prog = "legacy"
    /\ pc = "v0_2"
    /\ migrated' = v0_2_to_current(abi_v0_2.doc)
    /\ pc' = "done"
    /\ UNCHANGED <<prog, abi, abi_v0_2>>
    /\ UNCHANGED combine_vars
    /\ UNCHANGED serde_vars

(***************************************************************************)
(* semver::Version, for version strings made of digits, dots and letters   *)
(* (no pre-release and no build part, numbers that fit u64).               *)
(***************************************************************************)
Version(major, minor, patch) == [major |-> major, minor |-> minor, patch |-> patch]

\* const SCHEMA_SEMVER: Version
SCHEMA_SEMVER == Version(0, 3, 0)

OkVal(v) == [ok |-> TRUE, val |-> v, err |-> <<>>]

ErrVal(e) == [ok |-> FALSE, val |-> <<>>, err |-> e]

\* a numeric identifier: digits, not empty, no leading zero
NumericIdentifier(s) ==
    /\ Len(s) > 0
    /\ \A i \in 1..Len(s) : s[i] \in 48..57
    /\ Len(s) > 1 => s[1] # 48

RECURSIVE Number(_)
Number(s) ==
    IF s = <<>> THEN 0
    ELSE Number(SubSeq(s, 1, Len(s) - 1)) * 10 + (s[Len(s)] - 48)

\* Version::parse / str::parse::<semver::Version>: major "." minor "." patch
Version_parse(s) ==
    LET dots == {i \in 1..Len(s) : s[i] = 46}
    IN  IF Cardinality(dots) # 2
        THEN ErrVal("semver")
        ELSE LET d1 == CHOOSE i \in dots : \A j \in dots : i <= j
                 d2 == CHOOSE i \in dots : \A j \in dots : j <= i
                 a == SubSeq(s, 1, d1 - 1)
                 b == SubSeq(s, d1 + 1, d2 - 1)
                 c == SubSeq(s, d2 + 1, Len(s))
             IN  IF NumericIdentifier(a) /\ NumericIdentifier(b) /\ NumericIdentifier(c)
                 THEN OkVal(Version(Number(a), Number(b), Number(c)))
                 ELSE ErrVal("semver")

RECURSIVE Decimal(_)
Decimal(n) ==
    IF n < 10 THEN <<48 + n>> ELSE Decimal(n \div 10) \o <<48 + (n % 10)>>

\* Display for Version, as format!("{}", version) writes it
Version_to_string(v) ==
    Decimal(v.major) \o <<46>> \o Decimal(v.minor) \o <<46>> \o Decimal(v.patch)

\* Ord for Version: major, then minor, then patch (pre-release is empty)
VersionLess(a, b) ==
    \/ a.major < b.major
    \/ a.major = b.major /\ a.minor < b.minor
    \/ a.major = b.major /\ a.minor = b.minor /\ a.patch < b.patch

(***************************************************************************)
(* serde_json::Value: a type tag and a payload. An object is a function    *)
(* from its keys; a schema (schemars Schema, BorshSchemaContainer) is an   *)
(* opaque value.                                                           *)
(***************************************************************************)
JNull == [t |-> "null", v |-> <<>>]

JNum(n) == [t |-> "num", v |-> n]

JSchema(x) == [t |-> "schema", v |-> x]

NoKeys == [k \in {} |-> JNull]

\* serde_json::Error: which message it is, and the versions the message names
Error(kind, mentions) == [kind |-> kind, mentions |-> mentions]

\* the hint goes by the place of the version before or after SCHEMA_SEMVER
hint_always_older(version) == "older"

\* lib.rs 43-53: which of the two messages
hint(version) ==
    IF VersionLess(version, SCHEMA_SEMVER) THEN "older" ELSE "newer"

\* the minor number is not looked at
is_current_major_only(version) ==
    version.major = SCHEMA_SEMVER.major

\* lib.rs 42: the version is a current one when major and minor are those of
\* SCHEMA_SEMVER
is_current(version) ==
    version.major = SCHEMA_SEMVER.major /\ version.minor = SCHEMA_SEMVER.minor

\* fn ensure_current_version: the string itself when it is accepted
ensure_current_version(d) ==
    IF d.t # "str" THEN ErrVal(Error("invalid type", {}))
    ELSE LET version == Version_parse(d.v)
         IN  IF ~version.ok
             THEN ErrVal(Error("expected valid semver", {}))
             ELSE IF ~is_current(version.val)
                  THEN ErrVal(Error(hint(version.val),
                                    {Version_to_string(version.val)}))
                  ELSE OkVal(d.v)

(***************************************************************************)
(* The current document (lib.rs 26-250) and its serde form.                *)
(***************************************************************************)
\* pub struct AbiFunction (lib.rs 104-126)
AbiFunction(name, doc, kind, modifiers, params, callbacks, callbacks_vec, res) ==
    [name |-> name, doc |-> doc, kind |-> kind, modifiers |-> modifiers,
     params |-> params, callbacks |-> callbacks, callbacks_vec |-> callbacks_vec,
     result |-> res]

\* pub enum AbiParameters: Json { args } or Borsh { args }
AbiParameters(class, args) == [class |-> class, args |-> args]

\* impl Default for AbiParameters
AbiParameters_default == AbiParameters("Json", <<>>)

\* AbiParameters::is_empty
AbiParameters_is_empty(params) ==
    CASE params.class = "Json" -> params.args = <<>>
      [] params.class = "Borsh" -> params.args = <<>>

\* #[serde(rename_all = "lowercase")]
lowercase ==
    [View |-> "view", Call |-> "call", Init |-> "init", Private |-> "private",
     Payable |-> "payable", Json |-> "json", Borsh |-> "borsh"]

\* Serialize for AbiType: the tag and the descriptor
abi_type_to_value(typ) ==
    JObj([serialization_type |-> JStr(lowercase[typ.tag]),
          type_schema |-> JSchema(typ.type_schema)])

\* Serialize for AbiJsonParameter / AbiBorshParameter
parameter_to_value(p) ==
    JObj([name |-> JStr(p.name), type_schema |-> JSchema(p.type_schema)])

\* Serialize for AbiParameters: the tag and the arguments
parameters_to_value(params) ==
    JObj([serialization_type |-> JStr(lowercase[params.class]),
          args |-> JArr([i \in 1..Len(params.args) |->
                            parameter_to_value(params.args[i])])])

\* the skip_serializing_if attributes of AbiFunction: which fields are written
function_keys(f) ==
    {"name", "kind"}
    \cup (IF f.doc.some THEN {"doc"} ELSE {})
    \cup (IF f.modifiers # <<>> THEN {"modifiers"} ELSE {})
    \cup (IF ~AbiParameters_is_empty(f.params) THEN {"params"} ELSE {})
    \cup (IF f.callbacks # <<>> THEN {"callbacks"} ELSE {})
    \cup (IF f.callbacks_vec.some THEN {"callbacks_vec"} ELSE {})
    \cup (IF f.result.some THEN {"result"} ELSE {})

\* Serialize for AbiFunction
function_to_value(f) ==
    JObj([k \in function_keys(f) |->
            CASE k = "name" -> JStr(f.name)
              [] k = "doc" -> JStr(f.doc.val)
              [] k = "kind" -> JStr(lowercase[f.kind])
              [] k = "modifiers" ->
                    JArr([i \in 1..Len(f.modifiers) |-> JStr(lowercase[f.modifiers[i]])])
              [] k = "params" -> parameters_to_value(f.params)
              [] k = "callbacks" ->
                    JArr([i \in 1..Len(f.callbacks) |-> abi_type_to_value(f.callbacks[i])])
              [] k = "callbacks_vec" -> abi_type_to_value(f.callbacks_vec.val)
              [] k = "result" -> abi_type_to_value(f.result.val)])

\* Serialize for AbiBody
body_to_value(body) ==
    JObj([functions |-> JArr([i \in 1..Len(body.functions) |->
                                function_to_value(body.functions[i])]),
          root_schema |-> JSchema(body.root_schema)])

\* Serialize for AbiRoot
root_to_value(doc) ==
    JObj([schema_version |-> JStr(doc.schema_version),
          metadata |-> JObj(metadata_to_value(doc.metadata)),
          body |-> body_to_value(doc.body)])

(***************************************************************************)
(* Deserialize for the current document. Every derive carries              *)
(* #[serde(deny_unknown_fields)] but AbiMetadata and BuildInfo.            *)
(***************************************************************************)
\* the derive lets unknown fields through
Struct_open(j, known, required) ==
    IF j.t # "obj" THEN "invalid type"
    ELSE IF ~(required \subseteq DOMAIN j.v) THEN "missing field"
    ELSE "ok"

\* a derived Deserialize with deny_unknown_fields (lib.rs 27, 93, 103, 157,
\* 182, 192, 241): the value is an object, every key is a field, every
\* field without a default is there
Struct(j, known, required) ==
    IF j.t # "obj" THEN "invalid type"
    ELSE IF ~(DOMAIN j.v \subseteq known) THEN "unknown field"
    ELSE IF ~(required \subseteq DOMAIN j.v) THEN "missing field"
    ELSE "ok"

\* the variant a lowercase name stands for
variant(names, s) ==
    IF \E k \in names : lowercase[k] = s
    THEN OkVal(CHOOSE k \in names : lowercase[k] = s)
    ELSE ErrVal(Error("unknown variant", {}))

\* Deserialize for AbiType (internally tagged, deny_unknown_fields)
abi_type_from_value(j) ==
    LET s == Struct(j, {"serialization_type", "type_schema"},
                    {"serialization_type", "type_schema"})
    IN  IF s # "ok" THEN ErrVal(Error(s, {}))
        ELSE IF j.v["serialization_type"].t # "str" \/ j.v["type_schema"].t # "schema"
        THEN ErrVal(Error("invalid type", {}))
        ELSE LET tag == variant({"Json", "Borsh"}, j.v["serialization_type"].v)
             IN  IF ~tag.ok THEN tag
                 ELSE OkVal([tag |-> tag.val, type_schema |-> j.v["type_schema"].v])

\* Deserialize for AbiJsonParameter / AbiBorshParameter
parameter_from_value(j) ==
    LET s == Struct(j, {"name", "type_schema"}, {"name", "type_schema"})
    IN  IF s # "ok" THEN ErrVal(Error(s, {}))
        ELSE IF j.v["name"].t # "str" \/ j.v["type_schema"].t # "schema"
        THEN ErrVal(Error("invalid type", {}))
        ELSE OkVal([name |-> j.v["name"].v, type_schema |-> j.v["type_schema"].v])

\* Deserialize for Vec<T>, given the results for the elements
vec_from_results(rs) ==
    IF \A i \in 1..Len(rs) : rs[i].ok
    THEN OkVal([i \in 1..Len(rs) |-> rs[i].val])
    ELSE ErrVal(rs[CHOOSE i \in 1..Len(rs) :
                     ~rs[i].ok /\ \A k \in 1..(i - 1) : rs[k].ok].err)

\* Deserialize for AbiParameters (internally tagged, deny_unknown_fields)
parameters_from_value(j) ==
    LET s == Struct(j, {"serialization_type", "args"}, {"serialization_type", "args"})
    IN  IF s # "ok" THEN ErrVal(Error(s, {}))
        ELSE IF j.v["serialization_type"].t # "str" \/ j.v["args"].t # "arr"
        THEN ErrVal(Error("invalid type", {}))
        ELSE LET tag == variant({"Json", "Borsh"}, j.v["serialization_type"].v)
                 args == vec_from_results([i \in 1..Len(j.v["args"].v) |->
                                             parameter_from_value(j.v["args"].v[i])])
             IN  IF ~tag.ok THEN tag
                 ELSE IF ~args.ok THEN args
                 ELSE OkVal(AbiParameters(tag.val, args.val))

\* Deserialize for Option<T>, given the result for T
option_from_result(r) ==
    IF r.ok THEN OkVal(Some(r.val)) ELSE r

\* Deserialize for String
string_from_value(j) ==
    IF j.t = "str" THEN OkVal(j.v) ELSE ErrVal(Error("invalid type", {}))

\* Deserialize for AbiFunctionKind and AbiFunctionModifier
enum_from_value(names, j) ==
    IF j.t = "str" THEN variant(names, j.v) ELSE ErrVal(Error("invalid type", {}))

\* the fields of an AbiFunction in the order of the struct, each read from
\* its key; every field but name and kind has #[serde(default)]
function_fields(j) ==
    <<string_from_value(j.v["name"]),
      IF "doc" \in DOMAIN j.v
      THEN option_from_result(string_from_value(j.v["doc"]))
      ELSE OkVal(None),
      enum_from_value({"View", "Call"}, j.v["kind"]),
      IF "modifiers" \notin DOMAIN j.v THEN OkVal(<<>>)
      ELSE IF j.v["modifiers"].t # "arr" THEN ErrVal(Error("invalid type", {}))
      ELSE vec_from_results(
               [i \in 1..Len(j.v["modifiers"].v) |->
                   enum_from_value({"Init", "Private", "Payable"},
                                   j.v["modifiers"].v[i])]),
      IF "params" \in DOMAIN j.v
      THEN parameters_from_value(j.v["params"])
      ELSE OkVal(AbiParameters_default),
      IF "callbacks" \notin DOMAIN j.v THEN OkVal(<<>>)
      ELSE IF j.v["callbacks"].t # "arr" THEN ErrVal(Error("invalid type", {}))
      ELSE vec_from_results(
               [i \in 1..Len(j.v["callbacks"].v) |->
                   abi_type_from_value(j.v["callbacks"].v[i])]),
      IF "callbacks_vec" \in DOMAIN j.v
      THEN option_from_result(abi_type_from_value(j.v["callbacks_vec"]))
      ELSE OkVal(None),
      IF "result" \in DOMAIN j.v
      THEN option_from_result(abi_type_from_value(j.v["result"]))
      ELSE OkVal(None)>>

\* the AbiFunction of the fields read, or the first error among them
function_from_fields(all) ==
    IF ~all.ok THEN all
    ELSE OkVal(AbiFunction(all.val[1], all.val[2], all.val[3], all.val[4],
                           all.val[5], all.val[6], all.val[7], all.val[8]))

\* Deserialize for AbiFunction (deny_unknown_fields)
function_from_value(j) ==
    LET s == Struct(j, {"name", "doc", "kind", "modifiers", "params", "callbacks",
                        "callbacks_vec", "result"}, {"name", "kind"})
    IN  IF s # "ok" THEN ErrVal(Error(s, {}))
        ELSE function_from_fields(vec_from_results(function_fields(j)))

\* the AbiBody of the functions read, or their first error
body_from_fields(fs, root_schema) ==
    IF ~fs.ok THEN fs
    ELSE OkVal([functions |-> fs.val, root_schema |-> root_schema])

\* Deserialize for AbiBody
body_from_value(j) ==
    LET s == Struct(j, {"functions", "root_schema"}, {"functions", "root_schema"})
    IN  IF s # "ok" THEN ErrVal(Error(s, {}))
        ELSE IF j.v["functions"].t # "arr" \/ j.v["root_schema"].t # "schema"
        THEN ErrVal(Error("invalid type", {}))
        ELSE body_from_fields(
                 vec_from_results([i \in 1..Len(j.v["functions"].v) |->
                                      function_from_value(j.v["functions"].v[i])]),
                 j.v["root_schema"].v)

\* Deserialize for AbiMetadata, from a serde_json::Value
metadata_from_json(j) ==
    IF j.t # "obj" THEN ErrVal(Error("invalid type", {}))
    ELSE LET m == metadata_from_value(j.v)
         IN  IF m.ok THEN OkVal(m.val) ELSE ErrVal(Error("invalid type", {}))

\* the AbiRoot of the three fields read, or the errors the object j holds
root_from_fields(j, version, metadata, body) ==
    LET known == {"schema_version", "metadata", "body"}
        has(k) == k \in DOMAIN j.v
        errs == (IF DOMAIN j.v \subseteq known THEN {} ELSE {Error("unknown field", {})})
                \cup (IF known \subseteq DOMAIN j.v THEN {} ELSE {Error("missing field", {})})
                \cup (IF has("schema_version") /\ ~version.ok THEN {version.err} ELSE {})
                \cup (IF has("metadata") /\ ~metadata.ok THEN {metadata.err} ELSE {})
                \cup (IF has("body") /\ ~body.ok THEN {body.err} ELSE {})
    IN  IF errs # {} THEN [ok |-> FALSE, val |-> <<>>, errs |-> errs]
        ELSE [ok |-> TRUE,
              val |-> AbiRoot(version.val, metadata.val, body.val.functions,
                              body.val.root_schema),
              errs |-> {}]

\* Deserialize for AbiRoot (deny_unknown_fields, schema_version through
\* ensure_current_version): the document, or the errors the value holds, of
\* which the deserializer reports the one it meets first
root_from_value(j) ==
    IF j.t # "obj" THEN [ok |-> FALSE, val |-> <<>>, errs |-> {Error("invalid type", {})}]
    ELSE root_from_fields(j, ensure_current_version(j.v["schema_version"]),
                          metadata_from_json(j.v["metadata"]),
                          body_from_value(j.v["body"]))

(***************************************************************************)
(* legacy::from_value (legacy/mod.rs 20-49).                               *)
(***************************************************************************)
Fails(err) == [tag |-> "Err", doc |-> err]

\* Value::as_object
as_object(j) == IF j.t = "obj" THEN Some(j.v) ELSE None

\* Index<&str> for serde_json::Map: panics when the key is not in the map
index(abi_object, key) ==
    [panic |-> key \notin DOMAIN abi_object,
     val |-> IF key \in DOMAIN abi_object THEN abi_object[key] ELSE JNull]

\* Value::as_str
as_str(v) == IF v.t = "str" THEN Some(v.v) ELSE None

\* lines 21-32: the semver::Version of the document, an error, or the panic
\* of the index expression
schema_version_of(j) ==
    LET abi_object == as_object(j)
    IN  IF ~abi_object.some THEN Fails(Error("expected object", {}))
        ELSE LET field == index(abi_object.val, "schema_version")
             IN  IF field.panic THEN Panicked
                 ELSE IF ~as_str(field.val).some
                 THEN Fails(Error("expected string field", {}))
                 ELSE LET version == Version_parse(as_str(field.val).val)
                      IN  IF ~version.ok
                          THEN Fails(Error("expected valid semver", {}))
                          ELSE Returns(version.val)

\* only the x.y.0 versions are taken
dispatch_patch_zero(version) ==
    CASE version.patch # 0 -> "unsupported"
      [] <<version.major, version.minor>> = <<0, 1>> -> "v0_1"
      [] <<version.major, version.minor>> = <<0, 2>> -> "v0_2"
      [] <<version.major, version.minor>> = <<0, 3>> -> "current"
      [] OTHER -> "unsupported"

\* a current document is taken through the v0.2 branch
dispatch_current_as_v0_2(version) ==
    CASE <<version.major, version.minor>> = <<0, 1>> -> "v0_1"
      [] <<version.major, version.minor>> = <<0, 2>> -> "v0_2"
      [] <<version.major, version.minor>> = <<0, 3>> -> "v0_2"
      [] OTHER -> "unsupported"

\* a 0.1 document jumps over v0_1_to_v0_2 into the v0.2 branch
dispatch_v0_1_as_v0_2(version) ==
    CASE <<version.major, version.minor>> = <<0, 1>> -> "v0_2"
      [] <<version.major, version.minor>> = <<0, 2>> -> "v0_2"
      [] <<version.major, version.minor>> = <<0, 3>> -> "current"
      [] OTHER -> "unsupported"

\* lines 33-48: match (schema_version.major, schema_version.minor)
dispatch(version) ==
    CASE <<version.major, version.minor>> = <<0, 1>> -> "v0_1"
      [] <<version.major, version.minor>> = <<0, 2>> -> "v0_2"
      [] <<version.major, version.minor>> = <<0, 3>> -> "current"
      [] OTHER -> "unsupported"

\* lines 44-47: the message names the version that was asked for
unsupported(version) ==
    Fails(Error("unsupported", {Version_to_string(version)}))

\* Deserialize for v0_1::AbiRoot and v0_2::AbiRoot: the three fields of the
\* document, the body of the shape of that version
legacy_from_value(shape, j) ==
    LET s == Struct(j, {"schema_version", "metadata", "body"},
                    {"schema_version", "metadata", "body"})
    IN  IF s # "ok" THEN ErrVal(Error(s, {}))
        ELSE IF j.v["schema_version"].t # "str" \/ j.v["body"].t # shape
        THEN ErrVal(Error("invalid type", {}))
        ELSE LET metadata == metadata_from_json(j.v["metadata"])
             IN  IF ~metadata.ok THEN metadata
                 ELSE OkVal(AbiRoot(j.v["schema_version"].v, metadata.val,
                                    j.v["body"].v.functions, j.v["body"].v.root_schema))

\* Serialize for v0_1::AbiRoot and v0_2::AbiRoot
legacy_to_value(shape, doc) ==
    JObj([schema_version |-> JStr(doc.schema_version),
          metadata |-> JObj(metadata_to_value(doc.metadata)),
          body |-> [t |-> shape, v |-> doc.body]])

(***************************************************************************)
(* The inputs of from_value and of the deserializer.                       *)
(***************************************************************************)
\* "0.1.5"
V015 == <<48, 46, 49, 46, 53>>

\* "0.2.9"
V029 == <<48, 46, 50, 46, 57>>

\* "0.3.7"
V037 == <<48, 46, 51, 46, 55>>

\* "0.0.1"
V001 == <<48, 46, 48, 46, 49>>

\* "99.99.99"
V999999 == <<57, 57, 46, 57, 57, 46, 57, 57>>

\* "1.3.0"
V130 == <<49, 46, 51, 46, 48>>

\* "0.1.0", "0.1.5", "0.2.0", "0.2.9", "0.3.0", "0.3.7"
SupportedVersionStrings == {V010, V015, V020, V029, SCHEMA_VERSION, V037}

\* "0.0.1", "99.99.99", "0.4.0", "0.10.0", "1.3.0"
UnsupportedVersionStrings == {V001, V999999, V040, V0100, V130}

\* "", "0.3", "0.3.x", "00.3.0", "0.3.0.0"
MalformedVersionStrings ==
    {<<>>, <<48, 46, 51>>, <<48, 46, 51, 46, 120>>, <<48, 48, 46, 51, 46, 48>>,
     <<48, 46, 51, 46, 48, 46, 48>>}

VersionStrings ==
    SupportedVersionStrings \cup UnsupportedVersionStrings \cup MalformedVersionStrings

\* what the schema_version field of a document may hold
VersionFields == {JStr(s) : s \in VersionStrings} \cup {JNum(3), JNull}

ParameterLists ==
    {AbiParameters("Json", <<>>),
     AbiParameters("Borsh", <<>>),
     AbiParameters("Json", <<[name |-> "x", type_schema |-> "J1"]>>),
     AbiParameters("Borsh", <<[name |-> "x", type_schema |-> "B1"],
                              [name |-> "y", type_schema |-> "B1"]>>)}

\* current functions: every kind, empty and non-empty modifiers, parameter
\* lists and callbacks, absent and present optional fields
CurrentFunctions ==
    {AbiFunction("f", doc, kind, modifiers, params, callbacks, callbacks_vec, res) :
        doc \in {None, Some("d")},
        kind \in {"View", "Call"},
        modifiers \in {<<>>, <<"Init">>, <<"Payable", "Private">>},
        params \in ParameterLists,
        callbacks \in {<<>>, <<AbiTypeJson("J1"), AbiTypeBorsh("B1")>>},
        callbacks_vec \in {None, Some(AbiTypeBorsh("B1"))},
        res \in {None, Some(AbiTypeJson("J2"))}}

FunctionFull ==
    AbiFunction("f", Some("d"), "Call", <<"Payable">>,
                AbiParameters("Json", <<[name |-> "x", type_schema |-> "J1"]>>),
                <<AbiTypeJson("J1")>>, None, Some(AbiTypeBorsh("B1")))

FunctionPlain ==
    AbiFunction("g", None, "View", <<>>, AbiParameters_default, <<>>, None, None)

\* well-formed current documents
CurrentDocuments ==
    {AbiRoot(SCHEMA_VERSION, MetadataEmpty, <<f>>, NoDefs) : f \in CurrentFunctions}
    \cup {AbiRoot(v, m, fs, rs) :
            v \in {SCHEMA_VERSION, V037},
            m \in MetadataUniverse,
            fs \in {<<>>, <<FunctionPlain, FunctionFull>>},
            rs \in {NoDefs, DefsT1}}

\* a JSON object with one more key, as the tests of lib.rs add it
with_extra(j, x) == JObj([k \in DOMAIN j.v \cup {"extra"} |->
                            IF k = "extra" THEN x ELSE j.v[k]])

\* a JSON object with one key given another value
with_field(j, key, x) == JObj([k \in DOMAIN j.v \cup {key} |->
                                 IF k = key THEN x ELSE j.v[k]])

\* a JSON object without one key
without_field(j, key) == JObj([k \in DOMAIN j.v \ {key} |-> j.v[k]])

\* a document given piece by piece
RawDocument(version, metadata, body) ==
    JObj([schema_version |-> version, metadata |-> metadata, body |-> body])

RawBody(fs) == JObj([functions |-> JArr(fs), root_schema |-> JSchema(DefsT1)])

\* FunctionFull with a key "extra" in the function, in its parameter list,
\* in its parameter, in its result type
RawFunctionsWithExtra ==
    LET j == function_to_value(FunctionFull)
        params == j.v["params"]
        arg == params.v["args"].v[1]
    IN  {with_extra(j, JStr("blah-blah")),
         with_field(j, "params", with_extra(params, JStr("blah-blah"))),
         with_field(j, "params",
                    with_field(params, "args", JArr(<<with_extra(arg, JStr("blah-blah"))>>))),
         with_field(j, "result", with_extra(j.v["result"], JStr("blah-blah")))}

\* MetadataFull with a key "extra": a string or a number in the metadata, a
\* string in the build information
RawMetadataWithExtra ==
    LET j == JObj(metadata_to_value(MetadataFull))
    IN  {with_extra(j, JStr("blah-blah")),
         with_extra(j, JNum(1)),
         with_field(j, "build", with_extra(j.v["build"], JStr("blah-blah")))}

\* current documents with a key that is no field, at every level
ValuesWithUnknownField ==
    LET metadata == JObj(metadata_to_value(MetadataFull))
        body == RawBody(<<function_to_value(FunctionFull)>>)
    IN  {with_extra(RawDocument(JStr(SCHEMA_VERSION), metadata, body), JStr("blah-blah")),
         RawDocument(JStr(SCHEMA_VERSION), metadata, with_extra(body, JStr("blah-blah")))}
        \cup {RawDocument(JStr(SCHEMA_VERSION), metadata, RawBody(<<f>>)) :
                f \in RawFunctionsWithExtra}
        \cup {RawDocument(JStr(SCHEMA_VERSION), m, body) : m \in RawMetadataWithExtra}

\* documents of each shape under every schema_version field, and the same
\* documents without the field
ValuesByVersion ==
    LET metadata == JObj(metadata_to_value(MetadataFull))
        bodies == {RawBody(<<function_to_value(FunctionFull)>>),
                   [t |-> "v0_1",
                    v |-> [functions |-> <<FunctionG(<<ParamX(AbiTypeJson("J1"))>>)>>,
                           root_schema |-> DefsT1]],
                   [t |-> "v0_2",
                    v |-> [functions |-> <<Function02("f", ViewOnly, "Borsh", <<>>)>>,
                           root_schema |-> DefsT1]]}
    IN  {RawDocument(version, metadata, body) : version \in VersionFields, body \in bodies}
        \cup {without_field(RawDocument(JNull, metadata, body), "schema_version") :
                body \in bodies}

\* what a caller may hand to from_value or to the deserializer
Values ==
    {JNull, JArr(<<>>), JObj(NoKeys)}
    \cup ValuesByVersion
    \cup ValuesWithUnknownField
    \cup {root_to_value(doc) : doc \in CurrentDocuments}
    \cup {legacy_to_value("v0_1", doc) : doc \in Documents01}
    \cup {legacy_to_value("v0_2", doc) : doc \in Documents02}

(***************************************************************************)
(* The steps of legacy::from_value and of the serde round trip.            *)
(***************************************************************************)
\* legacy/mod.rs 20-33 and 44-47: the version is read and the branch taken
from_value_version ==
    /\ prog = "from_value"
    /\ pc = "start"
    /\ \E j \in Values :
        /\ value' = j
        /\ LET version == schema_version_of(j)
           IN  IF version.tag # "Ok"
               THEN abi_root' = version /\ pc' = "done"
               ELSE IF dispatch(version.doc) = "unsupported"
               THEN abi_root' = unsupported(version.doc) /\ pc' = "done"
               ELSE abi_root' = NotRun /\ pc' = dispatch(version.doc)
    /\ UNCHANGED prog
    /\ UNCHANGED legacy_vars
    /\ UNCHANGED combine_vars

\* legacy/mod.rs 34-38: the (0, 1) branch
from_value_v0_1 ==
    /\ prog = "from_value"
    /\ pc = "v0_1"
    /\ LET parsed == legacy_from_value("v0_1", value)
       IN  IF ~parsed.ok
           THEN /\ abi_root' = Fails(parsed.err)
                /\ UNCHANGED legacy_vars
           ELSE LET v02 == v0_1_to_v0_2(parsed.val)
                    cur == IF v02.tag = "Ok" THEN v0_2_to_current(v02.doc) ELSE NotRun
                IN  /\ abi' = parsed.val
                    /\ abi_v0_2' = v02
                    /\ migrated' = cur
                    /\ abi_root' = IF v02.tag = "Ok" THEN cur ELSE Panicked
    /\ pc' = "done"
    /\ UNCHANGED <<prog, value>>
    /\ UNCHANGED combine_vars

\* legacy/mod.rs 39-42: the (0, 2) branch
from_value_v0_2 ==
    /\ prog = "from_value"
    /\ pc = "v0_2"
    /\ LET parsed == legacy_from_value("v0_2", value)
       IN  IF ~parsed.ok
           THEN /\ abi_root' = Fails(parsed.err)
                /\ UNCHANGED legacy_vars
           ELSE /\ abi' = parsed.val
                /\ abi_v0_2' = Returns(parsed.val)
                /\ migrated' = v0_2_to_current(parsed.val)
                /\ abi_root' = v0_2_to_current(parsed.val)
    /\ pc' = "done"
    /\ UNCHANGED <<prog, value>>
    /\ UNCHANGED combine_vars

\* legacy/mod.rs 43: the (0, 3) branch, serde_json::from_value(abi)
from_value_current ==
    /\ prog = "from_value"
    /\ pc = "current"
    /\ LET parsed == root_from_value(value)
       IN  IF parsed.ok
           THEN abi_root' = Returns(parsed.val)
           ELSE \E e \in parsed.errs : abi_root' = Fails(e)
    /\ pc' = "done"
    /\ UNCHANGED <<prog, value>>
    /\ UNCHANGED legacy_vars
    /\ UNCHANGED combine_vars

\* serde_json::to_value(&abi_root) of a current document
to_value ==
    /\ prog = "serde"
    /\ pc = "start"
    /\ \E doc \in CurrentDocuments :
        /\ abi' = doc
        /\ value' = root_to_value(doc)
    /\ pc' = "value"
    /\ UNCHANGED <<prog, abi_v0_2, migrated, abi_root>>
    /\ UNCHANGED combine_vars

\* a document that comes from outside
read_value ==
    /\ prog = "serde"
    /\ pc = "start"
    /\ \E j \in Values : value' = j
    /\ pc' = "value"
    /\ UNCHANGED <<prog, abi_root>>
    /\ UNCHANGED legacy_vars
    /\ UNCHANGED combine_vars

\* serde_json::from_value::<AbiRoot>(value)
from_value_AbiRoot ==
    /\ prog = "serde"
    /\ pc = "value"
    /\ LET parsed == root_from_value(value)
       IN  IF parsed.ok
           THEN abi_root' = Returns(parsed.val)
           ELSE \E e \in parsed.errs : abi_root' = Fails(e)
    /\ pc' = "done"
    /\ UNCHANGED <<prog, value>>
    /\ UNCHANGED legacy_vars
    /\ UNCHANGED combine_vars

(***************************************************************************)
(* The specification.                                                      *)
(***************************************************************************)
Init ==
    /\ prog \in {"combine", "combine_src", "legacy", "from_value", "serde"}
    /\ pc = IF prog \in {"combine", "combine_src"} THEN "loop" ELSE "start"
    /\ entries = <<>>
    /\ schema_version = None
    /\ source_hash = None
    /\ functions = <<>>
    /\ definitions = EmptyMap
    /\ unexpected_versions = {}
    /\ result = Pending
    /\ abi = <<>>
    /\ abi_v0_2 = NotRun
    /\ migrated = NotRun
    /\ value = <<>>
    /\ abi_root = NotRun

Next ==
    \/ combine_loop
    \/ combine_return
    \/ combine_src_loop
    \/ combine_src_return
    \/ migrate_v0_1
    \/ parse_v0_2
    \/ migrate_v0_2
    \/ from_value_version
    \/ from_value_v0_1
    \/ from_value_v0_2
    \/ from_value_current
    \/ to_value
    \/ read_value
    \/ from_value_AbiRoot

Spec == Init /\ [][Next]_vars

(***************************************************************************)
(* Vocabulary of the properties.                                           *)
(***************************************************************************)
Returned == pc = "done"

\* some consumed entry carries another version than the first one
Mismatch ==
    \E i \in 1..Len(entries) : entries[i].schema_version # entries[1].schema_version

\* the versions of the consumed entries that differ from the first one's
OtherVersions ==
    {entries[i].schema_version : i \in 1..Len(entries)} \ {entries[1].schema_version}

Conflict == result.tag = "Err" /\ result.kind = "SCHEMA_VERSION_CONFLICT"

RECURSIVE ConcatFunctions(_)
ConcatFunctions(es) ==
    IF es = <<>> THEN <<>>
    ELSE ConcatFunctions(SubSeq(es, 1, Len(es) - 1)) \o es[Len(es)].functions

Count(s, x) == Cardinality({i \in 1..Len(s) : s[i] = x})

CountName(s, n) == Cardinality({i \in 1..Len(s) : s[i].name = n})

Range(s) == {s[i] : i \in 1..Len(s)}

IsPermutation(s, t) ==
    /\ Len(s) = Len(t)
    /\ \A x \in Range(s) \cup Range(t) : Count(s, x) = Count(t, x)

NameOrdered(fs) ==
    \A i \in 1..Len(fs) : \A j \in (i + 1)..Len(fs) :
        cmp(fs[i].name, fs[j].name) # "Greater"

StrictlyAscending(q) ==
    \A i \in 1..Len(q) : \A j \in (i + 1)..Len(q) : StrLess(q[i], q[j])

(***************************************************************************)
(* C1: combine (near-abi/src/private.rs) on a non-empty sequence returns   *)
(* an error if and only if some entry's schema_version differs from the    *)
(* first entry's; the error is then SchemaVersionConflict and no combined  *)
(* entry is returned, otherwise an entry is returned.                      *)
(***************************************************************************)
C1_ErrorIffMismatch ==
    (prog = "combine" /\ Returned /\ entries # <<>>) =>
        /\ (result.tag = "Err") <=> Mismatch
        /\ Mismatch => Conflict
        /\ ~Mismatch => result.tag = "Ok"

\* the only mismatching entry is the last of three
C1_Witness ==
    /\ prog = "combine" /\ Returned /\ Len(entries) = 3
    /\ entries[2].schema_version = entries[1].schema_version
    /\ entries[3].schema_version # entries[1].schema_version
    /\ Conflict

(***************************************************************************)
(* C2: the expected version is fixed by the first entry and never changed  *)
(* by a later one, and on a conflict `found` holds every version of the    *)
(* input that differs from it, each exactly once, also those that come     *)
(* after the first mismatch.                                               *)
(***************************************************************************)
C2_ExpectedFirstFoundAll ==
    (prog = "combine" /\ entries # <<>>) =>
        /\ schema_version = Some(entries[1].schema_version)
        /\ (Returned /\ Conflict) =>
            /\ result.expected = entries[1].schema_version
            /\ Range(result.found) = OtherVersions
            /\ Len(result.found) = Cardinality(OtherVersions)

\* two different unexpected versions, a matching entry between them
C2_Witness ==
    /\ prog = "combine" /\ Returned /\ Conflict /\ Len(entries) = 4
    /\ entries[2].schema_version # entries[1].schema_version
    /\ entries[3].schema_version = entries[1].schema_version
    /\ entries[4].schema_version \notin
            {entries[1].schema_version, entries[2].schema_version}
    /\ Len(result.found) = 2

(***************************************************************************)
(* C3: the `found` list of a SchemaVersionConflict is in ascending order   *)
(* without duplicates, whichever combine returned it. This is the claim as *)
(* it stands; the HashSet of src/private.rs does not keep it.              *)
(***************************************************************************)
C3_FoundSorted ==
    (Returned /\ Conflict) => StrictlyAscending(result.found)

\* what does hold: the BTreeSet of near-abi/src/private.rs yields `found` in
\* ascending String order
C3_FoundSortedBTreeSet ==
    (prog = "combine" /\ Returned /\ Conflict) => StrictlyAscending(result.found)

(***************************************************************************)
(* C4: a successful combine returns the first entry's schema_version and   *)
(* a function list in non-decreasing order of name.                        *)
(***************************************************************************)
C4_VersionAndNameOrder ==
    (Returned /\ result.tag = "Ok") =>
        /\ result.schema_version = entries[1].schema_version
        /\ NameOrdered(result.functions)

\* the entries {b, a}, {c}, {} of version 0.3.0 give [a, b, c]
C4_Witness ==
    /\ prog = "combine" /\ Returned /\ result.tag = "Ok"
    /\ entries = <<Entry(SCHEMA_VERSION, <<FnB, FnA>>, NoDefs),
                   Entry(SCHEMA_VERSION, <<FnC>>, NoDefs),
                   Entry(SCHEMA_VERSION, <<>>, NoDefs)>>
    /\ result.schema_version = SCHEMA_VERSION
    /\ result.functions = <<FnA, FnB, FnC>>

(***************************************************************************)
(* C5: a successful combine returns a permutation of the concatenation of  *)
(* the input function lists: nothing is deduplicated, a name occurring k   *)
(* times in the inputs occurs k times in the output.                       *)
(***************************************************************************)
C5_FunctionsPermutation ==
    (Returned /\ result.tag = "Ok") =>
        /\ IsPermutation(result.functions, ConcatFunctions(entries))
        /\ \A n \in {NameA, NameB, NameC, NameAB} :
            CountName(result.functions, n) = CountName(ConcatFunctions(entries), n)

\* the name "a" comes in three times and goes out three times
C5_Witness ==
    /\ prog = "combine" /\ Returned /\ result.tag = "Ok"
    /\ CountName(ConcatFunctions(entries), NameA) = 3
    /\ CountName(result.functions, NameA) = 3

(***************************************************************************)
(* C6: combine of no entries returns a NoEntries error value. This is the  *)
(* claim as it stands; the code unwraps a None and panics.                 *)
(***************************************************************************)
C6_EmptyIsNoEntries ==
    (prog = "combine" /\ Returned /\ entries = <<>>) =>
        result.tag = "Err" /\ result.kind = "NO_ENTRIES"

(***************************************************************************)
(* C7, as claimed: combine of exactly one entry succeeds and returns the   *)
(* entry unchanged but for the sorting: same version, same root schema.    *)
(***************************************************************************)
C7_SingleEntryUnchanged ==
    (prog = "combine" /\ Returned /\ Len(entries) = 1) =>
        /\ result.tag = "Ok"
        /\ result.schema_version = entries[1].schema_version
        /\ result.root_schema = entries[1].root_schema

(***************************************************************************)
(* C7, amended: combine of exactly one entry succeeds whatever its         *)
(* version; the result has the entry's version, the entry's functions      *)
(* ordered by name, and the named definitions of the entry's catalog,      *)
(* under the generator's own String root schema.                           *)
(***************************************************************************)
C7_SingleEntryCatalogKept ==
    (prog = "combine" /\ Returned /\ Len(entries) = 1) =>
        /\ result.tag = "Ok"
        /\ result.schema_version = entries[1].schema_version
        /\ IsPermutation(result.functions, entries[1].functions)
        /\ NameOrdered(result.functions)
        /\ result.root_schema.root = "String"
        /\ result.root_schema.defs = entries[1].root_schema.defs

\* one entry of an old version with a definition
C7_Witness ==
    /\ prog = "combine" /\ Returned /\ Len(entries) = 1
    /\ entries[1].schema_version = V020
    /\ entries[1].root_schema.defs # EmptyMap
    /\ result.tag = "Ok"

(***************************************************************************)
(* Vocabulary of the migration properties.                                 *)
(***************************************************************************)
\* a v0.1 document went into v0_1_to_v0_2
Ran01 == prog = "legacy" /\ pc # "start" /\ abi.schema_version = V010

Tags(params) == {params[i].typ.tag : i \in 1..Len(params)}

Mixed(f) == Cardinality(Tags(f.params)) > 1

(***************************************************************************)
(* C8: migrating a v0.1 function whose parameters do not all carry the     *)
(* same tag returns a MixedParameterSerialization error value. This is the *)
(* claim as it stands; to_json_schema and to_borsh_schema panic instead.   *)
(***************************************************************************)
C8_MixedIsErrorValue ==
    (Ran01 /\ \E i \in 1..Len(abi.body.functions) : Mixed(abi.body.functions[i])) =>
        abi_v0_2.tag = "MixedParameterSerialization"

(***************************************************************************)
(* C9: the function produced by v0_2_to_current has kind View when is_view *)
(* and Call otherwise, and modifiers holding Init, Payable, Private exactly *)
(* for the set booleans, none repeated. This is the claim as it stands;    *)
(* the transform copies the four booleans and sets neither field.          *)
(***************************************************************************)
C9_FlagsFolded ==
    (prog = "legacy" /\ pc = "done" /\ migrated.tag = "Ok") =>
        \A i \in 1..Len(migrated.doc.body.functions) :
            LET f == migrated.doc.body.functions[i]
                g == abi_v0_2.doc.body.functions[i]
            IN  /\ "kind" \in DOMAIN f
                /\ f.kind = (IF g.is_view THEN "View" ELSE "Call")
                /\ "modifiers" \in DOMAIN f
                /\ ("Init" \in Range(f.modifiers)) <=> g.is_init
                /\ ("Payable" \in Range(f.modifiers)) <=> g.is_payable
                /\ ("Private" \in Range(f.modifiers)) <=> g.is_private
                /\ Cardinality(Range(f.modifiers)) = Len(f.modifiers)

(***************************************************************************)
(* C10: for a v0.1 document whose functions each have parameters of one    *)
(* tag, v0_1_to_v0_2 returns, and each parameter list gets the class Json  *)
(* when it is empty or starts with a Json parameter and Borsh when it      *)
(* starts with a Borsh parameter, and holds every parameter in the         *)
(* original order with its name and its type descriptor.                   *)
(***************************************************************************)
C10_ParamsClassAndOrder ==
    (Ran01 /\ \A i \in 1..Len(abi.body.functions) : ~Mixed(abi.body.functions[i])) =>
        /\ abi_v0_2.tag = "Ok"
        /\ Len(abi_v0_2.doc.body.functions) = Len(abi.body.functions)
        /\ \A i \in 1..Len(abi.body.functions) :
            LET old == abi.body.functions[i].params
                new == abi_v0_2.doc.body.functions[i].params
            IN  /\ new.class = (IF old = <<>> \/ old[1].typ.tag = "Json"
                                THEN "Json" ELSE "Borsh")
                /\ Len(new.args) = Len(old)
                /\ \A k \in 1..Len(old) :
                    /\ new.args[k].name = old[k].name
                    /\ new.args[k].type_schema = old[k].typ.type_schema

\* three Borsh parameters, two names
C10_Witness ==
    /\ Ran01
    /\ abi_v0_2.tag = "Ok"
    /\ Len(abi.body.functions) = 1
    /\ Len(abi.body.functions[1].params) >= 2
    /\ Tags(abi.body.functions[1].params) = {"Borsh"}
    /\ abi.body.functions[1].params[1].name # abi.body.functions[1].params[2].name
    /\ abi_v0_2.doc.body.functions[1].params.class = "Borsh"

(***************************************************************************)
(* Vocabulary of the properties of from_value and of the deserializer.     *)
(***************************************************************************)
\* a run of the migration chain, on its own or inside from_value, has ended
MigrationDone == prog \in {"legacy", "from_value"} /\ pc = "done"

FromValueDone == prog = "from_value" /\ pc = "done"

DeserializerDone == prog = "serde" /\ pc = "done"

(***************************************************************************)
(* C11: whenever a historical document (v0.1 or v0.2) migrates             *)
(* successfully, the metadata of the current document that comes out is    *)
(* field for field the metadata of the document that went in, and so is    *)
(* the metadata of the v0.2 document in between.                           *)
(***************************************************************************)
C11_MetadataPreserved ==
    (MigrationDone /\ migrated.tag = "Ok") =>
        /\ abi_v0_2.doc.metadata = abi.metadata
        /\ migrated.doc.metadata = abi.metadata
        /\ \A k \in DOMAIN abi.metadata : migrated.doc.metadata[k] = abi.metadata[k]

\* a v0.1 document with every metadata field set, extra entry included, has
\* gone through both transforms
C11_Witness ==
    /\ MigrationDone
    /\ migrated.tag = "Ok"
    /\ abi.schema_version = V010
    /\ abi.metadata = MetadataFull
    /\ DOMAIN migrated.doc.metadata.other = {"license"}

\* the messages that reject a document for its version
VersionErrors ==
    {"unsupported", "older", "newer", "expected valid semver", "expected string field"}

\* the branch that the major and minor numbers of a version stand for
BranchOf(version) ==
    IF version.major # 0 THEN "none"
    ELSE IF version.minor = 1 THEN "v0_1"
    ELSE IF version.minor = 2 THEN "v0_2"
    ELSE IF version.minor = 3 THEN "current"
    ELSE "none"

\* from_value has read a schema_version that is valid semver
VersionRead ==
    /\ prog = "from_value"
    /\ pc # "start"
    /\ schema_version_of(value).tag = "Ok"

(***************************************************************************)
(* C12: from_value takes its branch by the major and minor numbers of      *)
(* schema_version alone: a 0.1.x document goes to the v0.1 parse and both  *)
(* transforms, a 0.2.x document to the v0.2 parse and the second           *)
(* transform, a 0.3.x document to the current deserializer and no          *)
(* transform, whatever x is, and no such document is rejected for its      *)
(* version.                                                                *)
(***************************************************************************)
C12_BranchByMajorMinor ==
    VersionRead =>
        LET branch == BranchOf(schema_version_of(value).doc)
        IN  branch # "none" =>
                /\ pc \in {branch, "done"}
                /\ ~(abi_root.tag = "Err" /\ abi_root.doc.kind \in VersionErrors)
                /\ (pc = "done" /\ abi_root.tag = "Ok") =>
                    /\ branch = "v0_1" =>
                        /\ abi.schema_version = value.v["schema_version"].v
                        /\ abi_v0_2.tag = "Ok"
                        /\ abi_v0_2.doc.schema_version = V020
                        /\ migrated = abi_root
                    /\ branch = "v0_2" =>
                        /\ abi_v0_2.tag = "Ok"
                        /\ abi_v0_2.doc.schema_version = value.v["schema_version"].v
                        /\ migrated = abi_root
                    /\ branch = "current" =>
                        /\ abi_v0_2.tag = "NotRun"
                        /\ migrated.tag = "NotRun"

\* a document of version 0.1.5 has been parsed as a v0.1 document and
\* migrated
C12_Witness ==
    /\ FromValueDone
    /\ value.t = "obj"
    /\ "schema_version" \in DOMAIN value.v
    /\ value.v["schema_version"] = JStr(V015)
    /\ abi_root.tag = "Ok"
    /\ abi.schema_version = V015
    /\ abi_v0_2.tag = "Ok"

(***************************************************************************)
(* C13: from_value on a document whose schema_version is valid semver with *)
(* a (major, minor) other than (0,1), (0,2), (0,3) fails with an           *)
(* unsupported-version error that carries the requested version, the       *)
(* oldest supported version 0.1.0 and the newest supported version 0.3.0.  *)
(* This is the claim as it stands; the message of the `_` arm names the    *)
(* requested version only.                                                 *)
(***************************************************************************)
C13_UnsupportedNamesBounds ==
    (VersionRead /\ pc = "done" /\ BranchOf(schema_version_of(value).doc) = "none") =>
        /\ abi_root.tag = "Err"
        /\ abi_root.doc.kind = "unsupported"
        /\ Version_to_string(schema_version_of(value).doc) \in abi_root.doc.mentions
        /\ V010 \in abi_root.doc.mentions
        /\ SCHEMA_VERSION \in abi_root.doc.mentions

\* the document is an object whose schema_version is absent, is no string,
\* or is a string that is no semver
MalformedVersionField ==
    /\ value.t = "obj"
    /\ \/ "schema_version" \notin DOMAIN value.v
       \/ value.v["schema_version"].t # "str"
       \/ ~Version_parse(value.v["schema_version"].v).ok

(***************************************************************************)
(* C14: from_value returns a malformed-version error value when the        *)
(* top-level schema_version is absent, when it is no string and when it is *)
(* a string that does not parse as semver; it neither returns a document   *)
(* nor aborts. This is the claim as it stands; with the field absent the   *)
(* index expression abi_object["schema_version"] panics.                   *)
(***************************************************************************)
C14_MalformedIsErrorValue ==
    (FromValueDone /\ MalformedVersionField) =>
        /\ abi_root.tag = "Err"
        /\ abi_root.doc.kind \in {"expected string field", "expected valid semver"}

\* a document made by to_value has been parsed back
RoundTripDone == DeserializerDone /\ DOMAIN abi # {}

(***************************************************************************)
(* C15: a well-formed current AbiRoot that is serialized and parsed back   *)
(* comes back equal to the original, whatever its fields hold: empty       *)
(* parameter lists of either class, empty modifiers and callbacks, absent  *)
(* optional fields, metadata with extra entries. This is the claim as it   *)
(* stands; an empty Borsh parameter list is not written and is read back   *)
(* as the default, an empty Json list.                                     *)
(***************************************************************************)
C15_RoundTrip ==
    RoundTripDone =>
        /\ abi_root.tag = "Ok"
        /\ abi_root.doc = abi

\* the round trip but for the class of an empty parameter list
C15_RoundTripButEmptyBorsh ==
    RoundTripDone =>
        /\ abi_root.tag = "Ok"
        /\ abi_root.doc.schema_version = abi.schema_version
        /\ abi_root.doc.metadata = abi.metadata
        /\ abi_root.doc.body.root_schema = abi.body.root_schema
        /\ Len(abi_root.doc.body.functions) = Len(abi.body.functions)
        /\ \A i \in 1..Len(abi.body.functions) :
            LET f == abi.body.functions[i]
                g == abi_root.doc.body.functions[i]
            IN  /\ \A k \in DOMAIN f \ {"params"} : g[k] = f[k]
                /\ g.params.args = f.params.args
                /\ f.params.args # <<>> => g.params = f.params
                /\ f.params.args = <<>> => g.params = AbiParameters_default

\* the schema_version string s is a semver with major.minor 0.3
IsCurrentVersionString(s) ==
    LET version == Version_parse(s)
    IN  version.ok /\ version.val.major = 0 /\ version.val.minor = 3

\* the errors that only the schema_version field gives rise to
VersionVerdicts == {"expected valid semver", "older", "newer"}

(***************************************************************************)
(* C16: every AbiRoot that the deserializer or from_value returns has a    *)
(* schema_version with major.minor 0.3: the deserializer lets a            *)
(* schema_version through exactly when it is a semver with major 0 and     *)
(* minor 3, and the transforms stamp the current constant.                 *)
(***************************************************************************)
C16_ReturnedIsCurrent ==
    /\ (prog \in {"from_value", "serde"} /\ pc = "done" /\ abi_root.tag = "Ok") =>
           IsCurrentVersionString(abi_root.doc.schema_version)
    /\ (DeserializerDone /\ value.t = "obj" /\ "schema_version" \in DOMAIN value.v) =>
           LET d == value.v["schema_version"]
               verdict == ensure_current_version(d)
           IN  /\ verdict.ok <=> (d.t = "str" /\ IsCurrentVersionString(d.v))
               /\ (abi_root.tag = "Err" /\ abi_root.doc.kind \in VersionVerdicts) =>
                      ~(d.t = "str" /\ IsCurrentVersionString(d.v))
               /\ ~(d.t = "str" /\ IsCurrentVersionString(d.v)) => abi_root.tag = "Err"
    /\ (prog \in {"legacy", "from_value"} /\ pc = "done" /\ migrated.tag = "Ok") =>
           /\ migrated.doc.schema_version = SCHEMA_VERSION
           /\ IsCurrentVersionString(migrated.doc.schema_version)

\* a 0.2.x document has come back from from_value with the current constant
C16_Witness ==
    /\ FromValueDone
    /\ schema_version_of(value) = Returns(Version(0, 2, 9))
    /\ abi_root.tag = "Ok"
    /\ abi_root.doc.schema_version = SCHEMA_VERSION

\* the value is an object whose schema_version is a semver string that is
\* not a 0.3 one
NotCurrentVersion ==
    /\ value.t = "obj"
    /\ "schema_version" \in DOMAIN value.v
    /\ value.v["schema_version"].t = "str"
    /\ Version_parse(value.v["schema_version"].v).ok
    /\ ~IsCurrentVersionString(value.v["schema_version"].v)

\* the version below every 0.3.x version
LowerThanCurrent(version) == version.major = 0 /\ version.minor < 3

(***************************************************************************)
(* C17: when the deserializer rejects a semver that is not a 0.3 version,  *)
(* the error names the version it got and gives exactly one of two hints:  *)
(* re-generate the ABI when the version is lower than the current one,     *)
(* upgrade near-abi when it is higher.                                     *)
(***************************************************************************)
C17_HintByOrder ==
    (DeserializerDone /\ NotCurrentVersion) =>
        LET got == value.v["schema_version"].v
            version == Version_parse(got).val
        IN  /\ abi_root.tag = "Err"
            /\ \/ abi_root.doc.kind \in {"older", "newer"}
               \/ Cardinality(root_from_value(value).errs) > 1
            /\ abi_root.doc.kind \in {"older", "newer"} =>
                  /\ Version_to_string(version) \in abi_root.doc.mentions
                  /\ abi_root.doc.kind = "older" <=> LowerThanCurrent(version)
                  /\ abi_root.doc.kind = "newer" <=> ~LowerThanCurrent(version)

\* "0.0.1" has been rejected with the hint to re-generate
C17_Witness ==
    /\ DeserializerDone
    /\ NotCurrentVersion
    /\ value.v["schema_version"] = JStr(V001)
    /\ abi_root.tag = "Err"
    /\ abi_root.doc.kind = "older"
    /\ abi_root.doc.mentions = {V001}

\* the JSON value j is an object with the key "extra", which no record of
\* the schema has
HasExtra(j) == j.t = "obj" /\ "extra" \in DOMAIN j.v

\* the field of a JSON object, null when it is not there
Field(j, key) == IF j.t = "obj" /\ key \in DOMAIN j.v THEN j.v[key] ELSE JNull

\* the items of a JSON array
Items(j) == IF j.t = "arr" THEN {j.v[i] : i \in DOMAIN j.v} ELSE {}

\* an unknown field in the function f: in the function record, its parameter
\* list, a parameter, or a type (result, callbacks, callbacks_vec)
ExtraInFunction(f) ==
    \/ HasExtra(f)
    \/ HasExtra(Field(f, "params"))
    \/ \E a \in Items(Field(Field(f, "params"), "args")) : HasExtra(a)
    \/ HasExtra(Field(f, "result"))
    \/ HasExtra(Field(f, "callbacks_vec"))
    \/ \E c \in Items(Field(f, "callbacks")) : HasExtra(c)

\* an unknown field at the top level, in the body or in a function
ExtraOutsideMetadata ==
    \/ HasExtra(value)
    \/ HasExtra(Field(value, "body"))
    \/ \E f \in Items(Field(Field(value, "body"), "functions")) : ExtraInFunction(f)

\* an unknown field in the metadata or in its build information
ExtraInMetadata == HasExtra(Field(value, "metadata"))
ExtraInBuild == HasExtra(Field(Field(value, "metadata"), "build"))

(***************************************************************************)
(* C18: parsing rejects every document that has a field the schema does    *)
(* not define, at the top level or in any nested record (metadata, body,   *)
(* function, parameter, type). This is the claim as it stands; the         *)
(* metadata record is open.                                                *)
(***************************************************************************)
C18_UnknownFieldRejected ==
    (DeserializerDone /\ (ExtraOutsideMetadata \/ ExtraInMetadata \/ ExtraInBuild)) =>
        abi_root.tag = "Err"

(***************************************************************************)
(* C18, amended: parsing rejects every document with an unknown field at   *)
(* the top level, in the body, in a function, in a parameter list, in a    *)
(* parameter or in a type. In the metadata an unknown field with a string  *)
(* value is kept as an entry of `other` and one with another value is      *)
(* rejected; an unknown field of the build information is skipped.         *)
(***************************************************************************)
C18_UnknownFieldRejectedButMetadata ==
    DeserializerDone =>
        /\ ExtraOutsideMetadata => abi_root.tag = "Err"
        /\ (ExtraInMetadata /\ Field(value, "metadata").v["extra"].t # "str") =>
               abi_root.tag = "Err"
        /\ (ExtraInMetadata /\ abi_root.tag = "Ok") =>
               /\ "extra" \in DOMAIN abi_root.doc.metadata.other
               /\ abi_root.doc.metadata.other["extra"] =
                      Field(value, "metadata").v["extra"].v
        /\ ExtraInBuild =>
               LET metadata == Field(value, "metadata")
                   build == without_field(Field(metadata, "build"), "extra")
                   stripped == root_from_value(
                       with_field(value, "metadata", with_field(metadata, "build", build)))
               IN  /\ abi_root.tag = "Ok" <=> stripped.ok
                   /\ abi_root.tag = "Ok" => abi_root.doc = stripped.val

\* a document with an unknown field in a parameter has been rejected
C18_Witness ==
    /\ DeserializerDone
    /\ \E f \in Items(Field(Field(value, "body"), "functions")) :
            \E a \in Items(Field(Field(f, "params"), "args")) : HasExtra(a)
    /\ abi_root = Fails(Error("unknown field", {}))

\* from_value has finished on a document whose schema_version is a 0.3.x one
CurrentDocumentDone ==
    /\ FromValueDone
    /\ schema_version_of(value).tag = "Ok"
    /\ BranchOf(schema_version_of(value).doc) = "current"

(***************************************************************************)
(* C19: from_value on a document that names a 0.3.x version returns what   *)
(* the current deserializer returns for the same value, the document or    *)
(* the error, and applies neither v0_1_to_v0_2 nor v0_2_to_current: the    *)
(* schema_version of the result is the one the document gives, not the     *)
(* stamped constant.                                                       *)
(***************************************************************************)
C19_CurrentIsNoOp ==
    CurrentDocumentDone =>
        LET direct == root_from_value(value)
        IN  /\ abi_v0_2.tag = "NotRun"
            /\ migrated.tag = "NotRun"
            /\ abi_root.tag \in {"Ok", "Err"}
            /\ abi_root.tag = "Ok" <=> direct.ok
            /\ abi_root.tag = "Ok" =>
                  /\ abi_root.doc = direct.val
                  /\ abi_root.doc.schema_version = value.v["schema_version"].v
            /\ abi_root.tag = "Err" => abi_root.doc \in direct.errs

\* a 0.3.7 document has come back with its own schema_version
C19_Witness ==
    /\ CurrentDocumentDone
    /\ abi_root.tag = "Ok"
    /\ abi_root.doc.schema_version = V037
    /\ abi_root.doc.schema_version # SCHEMA_VERSION

(***************************************************************************)
(* C20: no input makes from_value, a migration transform or combine end in *)
(* a panic: each of them ends by returning a result or an error value.     *)
(* This is the claim as it stands; combine panics on no entries,           *)
(* v0_1_to_v0_2 on parameters of both classes, from_value on a document    *)
(* without schema_version.                                                 *)
(***************************************************************************)
C20_NoPanic ==
    /\ result.tag # "Panic"
    /\ abi_v0_2.tag # "Panic"
    /\ migrated.tag # "Panic"
    /\ abi_root.tag # "Panic"

\* combine of near-abi/src/private.rs has returned
CombineDone == prog = "combine" /\ pc = "done"

\* combine of src/private.rs has returned
CombineSrcDone == prog = "combine_src" /\ pc = "done"

(***************************************************************************)
(* C21: combine and migration are functions of their arguments: any other  *)
(* call on the same entries (the same document) returns the result this    *)
(* call returned, the error with the same expected and the same found in   *)
(* the same order included. This is the claim as it stands; the found list *)
(* of src/private.rs is in the order a HashSet happens to iterate in.      *)
(***************************************************************************)
C21_Deterministic ==
    /\ CombineDone => result = combine(entries)
    /\ CombineSrcDone => \A other \in combine_src(entries) : other = result
    /\ (prog = "legacy" /\ pc = "done" /\ abi.schema_version = V010) =>
           /\ abi_v0_2 = v0_1_to_v0_2(abi)
           /\ abi_v0_2.tag = "Ok" => migrated = v0_2_to_current(abi_v0_2.doc)

\* what does hold: combine of near-abi/src/private.rs and the transforms are
\* functions of their arguments, and combine of src/private.rs returns one
\* of the results that differ in the order of found only
C21_DeterministicButHashSet ==
    /\ CombineDone => result = combine(entries)
    /\ CombineSrcDone =>
           /\ result \in combine_src(entries)
           /\ \A other \in combine_src(entries) :
                  /\ other.tag = result.tag
                  /\ other.kind = result.kind
                  /\ other.expected = result.expected
                  /\ {other.found[i] : i \in DOMAIN other.found} =
                         {result.found[i] : i \in DOMAIN result.found}
                  /\ other.functions = result.functions
                  /\ other.root_schema = result.root_schema
    /\ (prog = "legacy" /\ pc = "done" /\ abi.schema_version = V010) =>
           /\ abi_v0_2 = v0_1_to_v0_2(abi)
           /\ abi_v0_2.tag = "Ok" => migrated = v0_2_to_current(abi_v0_2.doc)

\* the type names the i-th entry defines
Defined(i) == DOMAIN entries[i].root_schema.defs

\* the last entry in input order that defines the type name n
LastDefining(n) ==
    CHOOSE i \in 1..Len(entries) :
        n \in Defined(i) /\ \A k \in (i + 1)..Len(entries) : n \notin Defined(k)

(***************************************************************************)
(* C22: when combine succeeds, the type names of the returned catalog are  *)
(* the union of the type names the entries define, and each name has the   *)
(* definition of the last entry, in input order, that defines it.          *)
(***************************************************************************)
C22_LastWriteWins ==
    ((CombineDone \/ CombineSrcDone) /\ result.tag = "Ok") =>
        /\ DOMAIN result.root_schema.defs = UNION {Defined(i) : i \in 1..Len(entries)}
        /\ \A n \in DOMAIN result.root_schema.defs :
               result.root_schema.defs[n] = entries[LastDefining(n)].root_schema.defs[n]

\* two entries gave T1 different definitions and the later one is returned
C22_Witness ==
    /\ CombineDone
    /\ result.tag = "Ok"
    /\ \E i, k \in 1..Len(entries) :
          /\ i < k
          /\ "T1" \in Defined(i) \cap Defined(k)
          /\ entries[i].root_schema.defs["T1"] # entries[k].root_schema.defs["T1"]
          /\ result.root_schema.defs["T1"] = entries[k].root_schema.defs["T1"]
          /\ \A l \in (k + 1)..Len(entries) : "T1" \notin Defined(l)

\* from_value has finished on a document of the (0, 1) branch that parses
Parsed01 ==
    /\ FromValueDone
    /\ schema_version_of(value).tag = "Ok"
    /\ BranchOf(schema_version_of(value).doc) = "v0_1"
    /\ legacy_from_value("v0_1", value).ok

\* from_value has finished on a document of the (0, 2) branch that parses
Parsed02 ==
    /\ FromValueDone
    /\ schema_version_of(value).tag = "Ok"
    /\ BranchOf(schema_version_of(value).doc) = "v0_2"
    /\ legacy_from_value("v0_2", value).ok

(***************************************************************************)
(* C23: the chain is composed step by step. A 0.1 document goes through    *)
(* v0_1_to_v0_2 and its output through v0_2_to_current, a 0.2 document     *)
(* through v0_2_to_current only; so what from_value returns for a 0.1      *)
(* document is what v0_2_to_current returns for the 0.2 document that      *)
(* v0_1_to_v0_2 yields, which is also what from_value returns when it is   *)
(* handed that 0.2 document.                                               *)
(***************************************************************************)
C23_ChainComposed ==
    /\ Parsed01 =>
           /\ abi_v0_2.tag # "NotRun"
           /\ abi = legacy_from_value("v0_1", value).val
           /\ abi_v0_2 = v0_1_to_v0_2(abi)
           /\ abi_v0_2.tag = "Ok" =>
                  LET again == legacy_from_value("v0_2", legacy_to_value("v0_2", abi_v0_2.doc))
                  IN  /\ abi_v0_2.doc.schema_version = V020
                      /\ migrated = v0_2_to_current(abi_v0_2.doc)
                      /\ abi_root = migrated
                      /\ again.ok
                      /\ abi_root = v0_2_to_current(again.val)
    /\ Parsed02 =>
           /\ abi_v0_2.tag = "Ok"
           /\ abi = legacy_from_value("v0_2", value).val
           /\ abi_v0_2 = Returns(abi)
           /\ migrated = v0_2_to_current(abi)
           /\ abi_root = migrated

\* a 0.1 document with functions has gone through both transforms
C23_Witness ==
    /\ Parsed01
    /\ abi.schema_version = V010
    /\ abi.body.functions # <<>>
    /\ abi_v0_2.tag = "Ok"
    /\ abi_v0_2.doc.schema_version = V020
    /\ abi_root.tag = "Ok"
    /\ abi_root.doc.schema_version = SCHEMA_VERSION

\* the AbiType b is the AbiType a: the same tag and the same descriptor
SameType(a, b) == a.tag = b.tag /\ a.type_schema = b.type_schema

\* the optional AbiType b is the optional AbiType a
SameOptionalType(a, b) ==
    /\ a.some = b.some
    /\ a.some => SameType(a.val, b.val)

\* the function g carries the AbiTypes of the function f
SameTypes(f, g) ==
    /\ Len(g.callbacks) = Len(f.callbacks)
    /\ \A k \in 1..Len(f.callbacks) : SameType(f.callbacks[k], g.callbacks[k])
    /\ SameOptionalType(f.callbacks_vec, g.callbacks_vec)
    /\ SameOptionalType(f.result, g.result)

\* a transform has returned a v0.2 document
Transformed == prog \in {"legacy", "from_value"} /\ abi_v0_2.tag = "Ok"

(***************************************************************************)
(* C24: every AbiType a function carries (each element of callbacks,       *)
(* callbacks_vec, result) keeps its tag and its descriptor through         *)
(* v0_1_to_v0_2 and through v0_2_to_current; callbacks keeps its length    *)
(* and order, an absent callbacks_vec or result stays absent.              *)
(***************************************************************************)
C24_TypesKept ==
    Transformed =>
        /\ Len(abi_v0_2.doc.body.functions) = Len(abi.body.functions)
        /\ \A i \in 1..Len(abi.body.functions) :
               SameTypes(abi.body.functions[i], abi_v0_2.doc.body.functions[i])
        /\ migrated.tag = "Ok" =>
               /\ Len(migrated.doc.body.functions) = Len(abi_v0_2.doc.body.functions)
               /\ \A i \in 1..Len(abi_v0_2.doc.body.functions) :
                      SameTypes(abi_v0_2.doc.body.functions[i],
                                migrated.doc.body.functions[i])

\* a v0.1 function with callbacks of both tags, callbacks_vec and result has
\* gone through both transforms
C24_Witness ==
    /\ Transformed
    /\ abi.schema_version = V010
    /\ migrated.tag = "Ok"
    /\ \E i \in 1..Len(abi.body.functions) :
          /\ abi.body.functions[i].callbacks = <<AbiTypeJson("J1"), AbiTypeBorsh("B1")>>
          /\ abi.body.functions[i].callbacks_vec = Some(AbiTypeBorsh("B1"))
          /\ abi.body.functions[i].result = Some(AbiTypeJson("J2"))
          /\ migrated.doc.body.functions[i].callbacks = <<AbiTypeJson("J1"), AbiTypeBorsh("B1")>>
          /\ migrated.doc.body.functions[i].result = Some(AbiTypeJson("J2"))

\* v0_1_to_v0_2 has been called on the document abi
Called01 == prog \in {"legacy", "from_value"} /\ abi_v0_2.tag # "NotRun"
            /\ Version_parse(abi.schema_version).val.minor = 1

\* a step inside v0_1_to_v0_2 fails on the function f: a descriptor is asked
\* of a parameter that carries the other tag
StepFails(f) ==
    \E k \in 1..Len(f.params) :
        IF is_json(f.params) THEN to_json_schema(f.params[k].typ).panic
        ELSE to_borsh_schema(f.params[k].typ).panic

(***************************************************************************)
(* C25: no error arising inside combine or migration is swallowed or       *)
(* replaced by a default: whenever a step inside the call fails, the call  *)
(* returns an error, and never a result. This is the claim as it stands;   *)
(* when a step of v0_1_to_v0_2 fails the call panics.                      *)
(***************************************************************************)
C25_FailureIsReturned ==
    (Called01 /\ \E i \in 1..Len(abi.body.functions) : StepFails(abi.body.functions[i])) =>
        /\ abi_v0_2.tag = "Err"
        /\ migrated.tag = "NotRun"
        /\ prog = "from_value" => abi_root.tag = "Err"

\* what does hold: no result is returned when a step has failed, and no
\* definition of a combined catalog is a default put in the place of an
\* entry's definition
C25_NothingDefaulted ==
    /\ (Called01 /\ \E i \in 1..Len(abi.body.functions) : StepFails(abi.body.functions[i])) =>
           /\ abi_v0_2.tag = "Panic"
           /\ migrated.tag = "NotRun"
           /\ prog = "from_value" => abi_root.tag = "Panic"
    /\ (CombineDone /\ result.tag = "Ok") =>
           \A n \in DOMAIN result.root_schema.defs :
               \E i \in 1..Len(entries) :
                   /\ n \in Defined(i)
                   /\ result.root_schema.defs[n] = entries[i].root_schema.defs[n]

\* the consumed entries that have the first entry's version and another
\* source_hash than the first entry
Clashing ==
    {i \in 1..Len(entries) :
        /\ entries[i].schema_version = entries[1].schema_version
        /\ entries[i].source_hash # entries[1].source_hash}

(***************************************************************************)
(* C26: in combine of src/private.rs a source conflict goes before a       *)
(* version conflict. SourceConflict is returned exactly when an entry with *)
(* the first entry's version has another source_hash than the first entry; *)
(* combine returns at that entry, whatever follows it, and drops the       *)
(* unexpected versions collected so far. An entry of another version is    *)
(* skipped before its source_hash is looked at, and SchemaVersionConflict  *)
(* is returned only when no entry clashes.                                 *)
(***************************************************************************)
C26_SourceConflictFirst ==
    CombineSrcDone =>
        /\ result = SourceConflict <=> Clashing # {}
        /\ Clashing # {} =>
               /\ Clashing = {Len(entries)}
               /\ result.found = <<>> /\ result.expected = <<>>
               /\ \A entry \in EntryUniverseSrc :
                      combine_src(Append(entries, entry)) = {SourceConflict}
        /\ (result.tag = "Err" /\ result.kind = "SCHEMA_VERSION_CONFLICT") =>
               /\ Clashing = {}
               /\ unexpected_versions # {}
        /\ (Clashing = {} /\ unexpected_versions # {}) =>
               result.tag = "Err" /\ result.kind = "SCHEMA_VERSION_CONFLICT"
        /\ result \in combine_src(entries)

\* a source conflict has been returned although unexpected versions had been
\* collected, one of them from an entry with another source_hash
C26_Witness ==
    /\ CombineSrcDone
    /\ result = SourceConflict
    /\ unexpected_versions # {}
    /\ \E i \in 1..Len(entries) :
          /\ entries[i].schema_version # entries[1].schema_version
          /\ entries[i].source_hash # entries[1].source_hash
          /\ i < Len(entries)

\* the functions of fs that have the name n, in the order of fs
WithName(fs, n) ==
    LET Named(f) == f.name = n
    IN  SelectSeq(fs, Named)

(***************************************************************************)
(* C27: the name sort of combine is stable: the functions of one name      *)
(* come out in the order they came in, entry after entry and, inside an    *)
(* entry, in the entry's order.                                            *)
(***************************************************************************)
C27_SortStable ==
    ((CombineDone \/ CombineSrcDone) /\ result.tag = "Ok") =>
        \A n \in {NameA, NameB, NameC, NameAB} :
            WithName(result.functions, n) = WithName(ConcatFunctions(entries), n)

\* two different functions named "a" came in after "b" and come out before
\* it, in the order they came in
C27_Witness ==
    /\ CombineDone
    /\ result.tag = "Ok"
    /\ ConcatFunctions(entries) = <<FnB, FnA, FnA2>>
    /\ result.functions = <<FnA, FnA2, FnB>>

\* the consumed entries whose schema_version is not the first entry's string
\* although both are accepted by ensure_current_version
PatchApart ==
    {i \in 1..Len(entries) :
        /\ entries[i].schema_version # entries[1].schema_version
        /\ ensure_current_version(JStr(entries[1].schema_version)).ok
        /\ ensure_current_version(JStr(entries[i].schema_version)).ok}

(***************************************************************************)
(* C28: combine compares the versions of the entries as strings, not by    *)
(* (major, minor): entries whose schema_version differ in the patch number *)
(* only, such as "0.3.0" and "0.3.1", both accepted by the deserializer,   *)
(* make combine fail with SchemaVersionConflict.                           *)
(***************************************************************************)
C28_PatchConflicts ==
    (CombineDone /\ PatchApart # {}) =>
        /\ result.tag = "Err"
        /\ result.kind = "SCHEMA_VERSION_CONFLICT"
        /\ result.expected = entries[1].schema_version
        /\ \A i \in PatchApart :
               /\ Version_parse(entries[i].schema_version).val.major =
                      Version_parse(result.expected).val.major
               /\ Version_parse(entries[i].schema_version).val.minor =
                      Version_parse(result.expected).val.minor
               /\ \E k \in DOMAIN result.found : result.found[k] = entries[i].schema_version

\* "0.3.0" then "0.3.1": a conflict that names "0.3.1"
C28_Witness ==
    /\ CombineDone
    /\ Len(entries) = 2
    /\ entries[1].schema_version = SCHEMA_VERSION
    /\ entries[2].schema_version = V031
    /\ PatchApart = {2}
    /\ result = SchemaVersionConflict(SCHEMA_VERSION, <<V031>>)

(***************************************************************************)
(* combine called twice by one caller, the second time with the same       *)
(* entries in another order. The caller holds a sequence of at most        *)
(* MaxPermuted entries.                                                    *)
(***************************************************************************)
MaxPermuted == 3

RECURSIVE EntrySeqs(_)
EntrySeqs(n) ==
    IF n = 0 THEN {<<>>}
    ELSE EntrySeqs(n - 1)
             \cup {Append(s, e) : s \in {t \in EntrySeqs(n - 1) : Len(t) = n - 1},
                                  e \in EntryUniverse}

\* the rearrangements of a sequence of n entries
Rearrangements(n) ==
    {p \in [1..n -> 1..n] : \A i \in 1..n : \E j \in 1..n : p[j] = i}

Permuted(es, p) == [i \in 1..Len(es) |-> es[p[i]]]

InitPermuted ==
    /\ prog = "combine"
    /\ pc = "call"
    /\ entries \in EntrySeqs(MaxPermuted)
    /\ schema_version = None
    /\ source_hash = None
    /\ functions = <<>>
    /\ definitions = EmptyMap
    /\ unexpected_versions = {}
    /\ result = Pending
    /\ abi = <<>>
    /\ abi_v0_2 = NotRun
    /\ migrated = NotRun
    /\ value = <<>>
    /\ abi_root = NotRun

\* the locals and the result a call of combine ends with, acc being the locals
\* after the loop
combine_ends(acc) ==
    /\ schema_version' = acc.schema_version
    /\ functions' = acc.functions
    /\ definitions' = acc.definitions
    /\ unexpected_versions' = acc.unexpected_versions
    /\ result' = after_loop(acc.schema_version, Some(0), acc.functions,
                            into_root_schema_for_String(acc.definitions),
                            Ascending(acc.unexpected_versions))

\* ChunkedAbiEntry::combine(entries): the whole call
combine_call ==
    /\ prog = "combine"
    /\ pc = "call"
    /\ combine_ends(for_entries(entries))
    /\ pc' = "done"
    /\ UNCHANGED <<prog, entries, source_hash>>
    /\ UNCHANGED legacy_vars
    /\ UNCHANGED serde_vars

\* ChunkedAbiEntry::combine on the same entries, rearranged
combine_rearranged ==
    /\ prog = "combine"
    /\ pc = "done"
    /\ \E p \in Rearrangements(Len(entries)) :
        /\ entries' = Permuted(entries, p)
        /\ combine_ends(for_entries(Permuted(entries, p)))
    /\ pc' = "again"
    /\ UNCHANGED <<prog, source_hash>>
    /\ UNCHANGED legacy_vars
    /\ UNCHANGED serde_vars

NextPermuted == combine_call \/ combine_rearranged

SpecPermuted == InitPermuted /\ [][NextPermuted]_vars

\* what an entry contributes to the catalog
Contributed(entry) ==
    IF entry.root_schema.defs_present THEN entry.root_schema.defs ELSE EmptyMap

\* order cannot matter: one version, function names pairwise distinct, and
\* no type name with two definitions
OrderFree ==
    /\ ~Mismatch
    /\ \A n \in Range(ConcatFunctions(entries)) :
           CountName(ConcatFunctions(entries), n.name) = 1
    /\ \A i \in 1..Len(entries) : \A j \in 1..Len(entries) :
           \A n \in DOMAIN Contributed(entries[i]) \cap DOMAIN Contributed(entries[j]) :
               Contributed(entries[i])[n] = Contributed(entries[j])[n]

Rearranged == pc = "done" /\ pc' = "again"

(***************************************************************************)
(* C29: when all entries have the same schema_version, all function names  *)
(* are pairwise distinct and no type name has two definitions, combine     *)
(* returns the same entry for every permutation of the input; when the     *)
(* versions differ, every permutation fails and `expected` is the version  *)
(* of the entry that comes first in it.                                    *)
(***************************************************************************)
C29_OrderIndependent ==
    [][Rearranged =>
          /\ OrderFree => result' = result
          /\ Mismatch =>
                 /\ result'.tag = "Err"
                 /\ result'.kind = "SCHEMA_VERSION_CONFLICT"
                 /\ result'.expected = entries'[1].schema_version]_vars

\* functions c / b, a and catalogs T1 / none / T2, combined a second time in
\* this order, to a, b, c and T1, T2
C29_Witness ==
    /\ prog = "combine"
    /\ pc = "again"
    /\ OrderFree
    /\ Len(entries) = 3
    /\ entries[1] = Entry(SCHEMA_VERSION, <<FnC>>, NoDefs)
    /\ entries[2] = Entry(SCHEMA_VERSION, <<FnB, FnA>>, NoDefs)
    /\ entries[3] = Entry(SCHEMA_VERSION, <<>>, OtherRoot)
    /\ result.tag = "Ok"
    /\ result.functions = <<FnA, FnB, FnC>>
    /\ DOMAIN result.root_schema.defs = {"T2"}

\* the body `out` has the shape of the body `inp`: as many functions, in the
\* same order, each with the same name and doc, and the same type catalog
SameShape(inp, out) ==
    /\ Len(out.functions) = Len(inp.functions)
    /\ \A i \in 1..Len(inp.functions) :
           /\ out.functions[i].name = inp.functions[i].name
           /\ out.functions[i].doc = inp.functions[i].doc
    /\ out.root_schema = inp.root_schema

(***************************************************************************)
(* C30: each migration transform preserves the shape of the document       *)
(* outside the fields it converts: the output of v0_1_to_v0_2 and of       *)
(* v0_2_to_current has as many functions as the input, in the same order,  *)
(* each with the same name and doc, and its root_schema is the input's.    *)
(***************************************************************************)
C30_ShapeKept ==
    Transformed =>
        /\ SameShape(abi.body, abi_v0_2.doc.body)
        /\ migrated.tag = "Ok" => SameShape(abi_v0_2.doc.body, migrated.doc.body)

\* a v0.1 document with the functions h (no doc) and g (with doc), in this
\* order, and a catalog of two types has gone through both transforms
C30_Witness ==
    /\ Transformed
    /\ abi.schema_version = V010
    /\ abi.body.root_schema = DefsT1T2
    /\ Len(abi.body.functions) = 2
    /\ abi.body.functions[1].name = "h"
    /\ abi.body.functions[2].name = "g"
    /\ abi.body.functions[2].doc = Some("doc")
    /\ abi_v0_2.doc.schema_version = V020
    /\ migrated.tag = "Ok"
    /\ migrated.doc.schema_version = SCHEMA_VERSION
    /\ migrated.doc.body.functions[1].name = "h"
    /\ migrated.doc.body.functions[1].doc = None
    /\ migrated.doc.body.functions[2].name = "g"
    /\ migrated.doc.body.functions[2].doc = Some("doc")
    /\ migrated.doc.body.root_schema = DefsT1T2

====
